---- MODULE Spec2Model ----
(***************************************************************************)
(* The digest engine of src/src/scope.js (class Scope) as a state machine. *)
(*                                                                         *)
(* JavaScript runs one call stack to completion; user callbacks (watch     *)
(* functions, listeners, queued tasks) re-enter the Scope API from inside  *)
(* the engine.  The model keeps that call stack explicitly: `stack` is the *)
(* sequence of active frames (the last one is running), `exc` is the       *)
(* exception being propagated, and each action is one step of the frame on *)
(* top.  User functions are closures: finite sequences of operations.      *)
(***************************************************************************)
EXTENDS Integers, Sequences, FiniteSets, TLC

\* ------------------------------------------------------------------ bounds

\* Number of calls the host program makes on the Scope API from outside.
MaxCalls ==
    4

\* Depth of the JavaScript call stack (frames) before a RangeError is thrown.
MaxStack ==
    7

\* Number of setTimeout callbacks that can be pending at once.
MaxTimers ==
    3

\* Longest chain of watchers set up by InitChain.
MaxChain ==
    12

\* ------------------------------------------------------- program constants

\* const maxTTL: number = 10
maxTTL ==
    10

\* const initWatchVal = () => {}: a value no watch function can return.
initWatchVal ==
    "initWatchVal"

\* The three scopes of the tree: root = new Scope(), child = root._new(),
\* iso = root._new(true).
Root ==
    1

Child ==
    2

Iso ==
    3

Scopes ==
    {Root, Child, Iso}

\* Properties of the root scope that the closures read and write.
Vars ==
    1 .. (MaxChain + 1)

\* --------------------------------------------------------------- closures

\* One operation of a user function: a write to a property or a call of the
\* Scope API.  s: the scope the call is made on; k, j: properties; v: a value;
\* f, g: the functions passed.
Op(o, s, k, j, v, f, g) ==
    [op |-> o, s |-> s, k |-> k, j |-> j, v |-> v, f |-> f, g |-> g]

Noop ==
    << >>

\* scope => { root[k] = v }
SetTo(k, v) ==
    << Op("set", 0, k, 0, v, Noop, Noop) >>

\* (newValue) => { root[j] = root[k] }
Copy(k, j) ==
    << Op("copy", 0, k, j, "", Noop, Noop) >>

\* scope => { root[k] = (root[k] === 'a' ? 'b' : 'a') }
Toggle(k) ==
    << Op("toggle", 0, k, 0, "", Noop, Noop) >>

\* () => { s._evalAsync(f) }
DoEvalAsync(s, f) ==
    << Op("evalAsync", s, 0, 0, "", f, Noop) >>

\* function task() { s._evalAsync(task) }
Requeue(s) ==
    << Op("requeue", s, 0, 0, "", Noop, Noop) >>

\* () => { s._applyAsync(f) }
DoApplyAsync(s, f) ==
    << Op("applyAsync", s, 0, 0, "", f, Noop) >>

\* () => { s.__postDigest(f) }
DoPostDigest(s, f) ==
    << Op("postDigest", s, 0, 0, "", f, Noop) >>

\* () => { s._digest() }
DoDigest(s) ==
    << Op("digest", s, 0, 0, "", Noop, Noop) >>

\* () => { s._apply(f) }
DoApply(s, f) ==
    << Op("apply", s, 0, 0, "", f, Noop) >>

\* () => { throw new Error() }
DoThrow ==
    << Op("throw", 0, 0, 0, "", Noop, Noop) >>

\* () => { if (root[k]) root[k].p = (root[k].p === x ? y : x) }: a write
\* into the object a property holds.
DoPoke(k) ==
    << Op("poke", 0, k, 0, "", Noop, Noop) >>

\* s._watch(scope => { g(); return root[k] }, f)
DoWatch(s, k, f, g) ==
    << Op("watch", s, k, 0, "", f, g) >>

\* the function _watch returned for watcher w: () => { deregister_w() }
DoUnwatch(w) ==
    << Op("unwatch", 0, w, 0, "", Noop, Noop) >>

\* () => { s._on(name, f) }
DoOn(s, name, f) ==
    << Op("on", s, 0, 0, name, f, Noop) >>

\* () => { s._emit(name) }
DoEmit(s, name) ==
    << Op("emit", s, 0, 0, name, Noop, Noop) >>

\* () => { s._broadcast(name) }
DoBroadcast(s, name) ==
    << Op("broadcast", s, 0, 0, name, Noop, Noop) >>

\* () => { s._destroy() }
DoDestroy(s) ==
    << Op("destroy", s, 0, 0, "", Noop, Noop) >>

\* _applyAsync's timer callback body: () => { this.__flushApplyAsync() }
FlushFn(s) ==
    << Op("flush", s, 0, 0, "", Noop, Noop) >>

\* ------------------------------------------------------------------ state

VARIABLES
    phase,            \* __phase of each scope object; "unset": no own property
    proto,            \* prototype of each scope object (0: Scope.prototype)
    parent,           \* _parent (0: null)
    children,         \* __children
    listeners,        \* __listeners: per event name, the listener functions
    destroyed,        \* the scopes _destroy() has run on (the program keeps no
                      \* such record: it is kept for the properties)
    watchers,         \* __watchers: watcher ids, index 1 is the front
    wrec,             \* the watcher objects, by id
    lastDirtyWatch,   \* _root.__lastDirtyWatch (0: null)
    asyncQueue,       \* __asyncQueue, one array shared by the tree
    applyAsyncQueue,  \* __applyAsyncQueue, shared by the tree
    applyAsyncId,     \* _root.__applyAsyncId (0: null)
    postDigestQueue,  \* __postDigestQueue, shared by the tree
    timers,           \* pending setTimeout(fn, 0) callbacks, oldest first
    data,             \* the watched properties
    local,            \* the variables that the closures made by _watchGroup,
                      \* _watchCollection and a one-time watch capture
    stack,            \* the call stack
    exc,              \* the exception being thrown ("none": normal control flow)
    env,              \* the calls the host program may make
    fuel,             \* how many more calls the host program makes
    threw,            \* an exception was raised since the host's last call
    ev                \* what the last step did

tree ==
    << proto, parent, children, listeners, destroyed >>

heap ==
    << phase, watchers, wrec, lastDirtyWatch, asyncQueue, applyAsyncQueue,
       applyAsyncId, postDigestQueue, timers, data, local >>

vars ==
    << phase, proto, parent, children, listeners, destroyed, watchers, wrec,
       lastDirtyWatch,
       asyncQueue, applyAsyncQueue, applyAsyncId, postDigestQueue, timers,
       data, local, stack, exc, env, fuel, threw, ev >>

Ev(t, s, n, b) ==
    [t |-> t, s |-> s, n |-> n, b |-> b]

\* ---------------------------------------------------------------- helpers

\* What a property watched by _watchCollection may hold: a primitive v, an
\* array of `items`, or an object whose own properties are the keys k with
\* props[k] # "absent".  "0" and "2" as the value of `length` are the numbers.
Value(kind, v, items, props) ==
    [kind |-> kind, v |-> v, items |-> items, props |-> props]

Keys ==
    {"x", "y", "length"}

Undefined ==
    Value("primitive", "undefined", << >>, [k \in Keys |-> "absent"])

\* The objects of an evaluation: the locals "l", the scope "s", the scope "p"
\* that "s" may inherit from, objects the host program made ("o1" .. "o4")
\* and the objects an evaluation makes with `{}` ("n1" .. "n3").  A property
\* holds one of them, a primitive ("0", "233", "old") or is "absent".
Objs ==
    {"l", "s", "p", "o1", "o2", "o3", "o4", "n1", "n2", "n3"}

\* The captured variables as the closures' makers initialise them:
\* _watchGroup's newValues, oldValues, changeReactionSchedules, firstRun and
\* shouldCall.  noted (when an accessor of the group was last found changed),
\* fired (when the group listener was last called), given (the newValues it
\* was last called with) and off (the group's deregister function has been
\* called) are kept for the properties.
\* _watchCollection's oldValue, oldLength and changeCount, with `value`, the
\* collection that the watched property holds; kept for the properties are
\* `at` and `before` (what the property held when internalWatchFn last ran
\* and the time before) and `looked` (how often it has run: 0, 1, or 2 for
\* more).  lastValue of oneTimeWatchDelegate, one for each of the watchers 1
\* and 2.  `filters` of filter.js (0: no filter under the name; 1, 2: the
\* filters that factory 1 and factory 2 make) and v0, the variable of the
\* function generated for `x | up` that holds its filter (-1: not compiled);
\* kept for the properties are compiledWith (the registry when `x | up` was
\* compiled) and applied (the filter its last invocation called).  objs: the
\* objects an expression is evaluated on, each with its own properties (see
\* Objs); locals: a locals object is passed; inherits: the scope "s" was made
\* by Object.create("p"); was: objs before the last evaluation; done: how the
\* last evaluation ended ("no": none yet).  expr: the expression last
\* evaluated in the sandbox and the values it met (x: scope.x; y: the
\* property y of the object "obj"; ret: what the function "fn" or the filter
\* returns); result: what the accessor returned, or the error it threw.
NoLocals ==
    [newValues |-> << "undefined", "undefined" >>,
     oldValues |-> << "undefined", "undefined" >>,
     changeReactionSchedules |-> FALSE,
     firstRun |-> TRUE,
     shouldCall |-> TRUE,
     noted |-> [call |-> 0, pass |-> 0, by |-> "none"],
     fired |-> [call |-> 0, pass |-> 0, by |-> "none"],
     off |-> FALSE,
     given |-> << "undefined", "undefined" >>,
     value |-> Undefined,
     oldValue |-> Undefined,
     oldLength |-> 0,
     changeCount |-> 0,
     before |-> Undefined,
     at |-> Undefined,
     looked |-> 0,
     lastValue |-> << "undefined", "undefined" >>,
     filters |-> [n \in {"up", "down"} |-> 0],
     v0 |-> -1,
     compiledWith |-> [n \in {"up", "down"} |-> 0],
     applied |-> -1,
     objs |-> [o \in Objs |-> [k \in {"a", "b", "c"} |-> "absent"]],
     locals |-> FALSE,
     inherits |-> FALSE,
     was |-> [o \in Objs |-> [k \in {"a", "b", "c"} |-> "absent"]],
     done |-> "no",
     expr |-> [form |-> "none", x |-> "undefined", y |-> "undefined",
               ret |-> "undefined"],
     result |-> "none"]

\* this._root: the constructor's `_root = this`, which a child made by
\* Object.create inherits and an isolated child copies from its parent.
RECURSIVE _root(_)
_root(s) ==
    IF proto[s] # 0 THEN _root(proto[s])
    ELSE IF parent[s] # 0 THEN _root(parent[s])
    ELSE s

\* this.__phase: a property read, found on the object or along its prototypes
\* (Object.create(this) in _new gives a child no own __phase).
RECURSIVE Phase(_)
Phase(s) ==
    IF phase[s] # "unset" THEN phase[s] ELSE Phase(proto[s])

\* if (this.__phase): null is falsy, '_digest' and '_apply' are truthy.
Truthy(p) ==
    p # "null"

\* __beginPhase(phase), when it does not throw
__beginPhase(s, p) ==
    [phase EXCEPT ![s] = p]

\* A scope that leaves its phase as it is.
__clearPhase_Keep(s) ==
    phase

\* __clearPhase()
__clearPhase(s) ==
    [phase EXCEPT ![s] = "null"]

\* newValue === oldValue
StrictEq(a, b) ==
    a = b /\ a # "NaN"

\* The values of the model are primitives ("a", "NaN", "undefined", ...) and
\* objects: "o1:x" is the object o1 while its property holds x, "c:x" a
\* clone made by _.cloneDeep. Content is what an object holds, whichever
\* object it is; a primitive is its own content.
Content(v) ==
    CASE v \in {"o1:x", "o2:x", "c:x"} -> "{x}"
      [] v \in {"o1:y", "o2:y", "c:y"} -> "{y}"
      [] OTHER -> v

\* _.isEqual: deep comparison of objects, SameValueZero on primitives.
isEqual(a, b) ==
    Content(a) = Content(b)

\* A comparison without the isNaN clause.
areEqual_NoNaN(newValue, oldValue, valueEq) ==
    IF valueEq
      THEN isEqual(newValue, oldValue)
      ELSE StrictEq(newValue, oldValue)

\* function areEqual(newValue, oldValue, valueEq)
areEqual(newValue, oldValue, valueEq) ==
    IF valueEq
      THEN isEqual(newValue, oldValue)
      ELSE StrictEq(newValue, oldValue)
             \/ (newValue = "NaN" /\ oldValue = "NaN")

\* watcher.valueEq ? _.cloneDeep(newValue) : newValue
cloneDeep(v) ==
    CASE Content(v) = "{x}" -> "c:x"
      [] Content(v) = "{y}" -> "c:y"
      [] OTHER -> v

\* watcher.watchFn(scope), the value it returns
WatchValue(w) ==
    data[wrec[w].k]

\* A watcher is clean when its watch function returns what `last` holds.
Clean(w) ==
    areEqual(WatchValue(w), wrec[w].last, wrec[w].valueEq)

\* The scopes __everyScope reaches from s.
RECURSIVE Subtree(_)
Subtree(s) ==
    {s} \cup UNION {Subtree(children[s][i]) : i \in 1 .. Len(children[s])}

WatchersOf(S) ==
    UNION {{watchers[s][i] : i \in 1 .. Len(watchers[s])} : s \in S}

\* The watchers of the subtree of s in the order a sweep evaluates them:
\* __everyScope calls fn on the scope, then on each child in turn, and fn
\* runs _.eachRight over the scope's __watchers.
RECURSIVE EvalOrder(_)
EvalOrder(s) ==
    LET own == [i \in 1 .. Len(watchers[s]) |->
                  watchers[s][Len(watchers[s]) + 1 - i]]
        below[i \in 0 .. Len(children[s])] ==
            IF i = 0 THEN << >>
            ELSE below[i - 1] \o EvalOrder(children[s][i])
    IN  own \o below[Len(children[s])]

\* setTimeout's return value: an id no pending timer and no stored handle has.
NewTimerId ==
    CHOOSE i \in 1 .. (Len(timers) + 2) :
      /\ i # applyAsyncId
      /\ \A n \in 1 .. Len(timers) : timers[n].id # i
      /\ \A m \in 1 .. (i - 1) :
           m = applyAsyncId \/ \E n \in 1 .. Len(timers) : timers[n].id = m

\* clearTimeout(id)
clearTimeout(id) ==
    LET Keep(t) == t.id # id IN SelectSeq(timers, Keep)

\* The stamp of a queue entry: its rank by arrival among the entries queued.
Stamp(q) ==
    Len(q) + 1

\* The ranks of the entries left once the entry of rank r is gone.
Ranked(q, r) ==
    [i \in DOMAIN q |-> [q[i] EXCEPT !.q = IF @ > r THEN @ - 1 ELSE @]]

\* Array.prototype.pop() in the place of shift(): the newest entry is taken.
shift_Newest(q) ==
    [item |-> q[Len(q)], rest |-> SubSeq(q, 1, Len(q) - 1)]

\* Array.prototype.shift(): the element taken and the rest.
shift(q) ==
    [item |-> Head(q), rest |-> Ranked(Tail(q), Head(q).q)]

\* _watch(watchFn, listenerFn, valueEq) for a watch function that is neither
\* constant nor one-time: the watcher object is made and unshifted onto the
\* scope's __watchers.  o: the call; st: the watcher lists and objects.
\* `born` is not a field of the program's watcher: it records when the call
\* was made (st.now), for the properties that speak of it.
_watch(st, o) ==
    [wrec |-> Append(st.wrec, [k |-> o.k, g |-> o.g, listenerFn |-> o.f,
                               valueEq |-> o.v = "valueEq",
                               last |-> initWatchVal, born |-> st.now]),
     watchers |-> [st.watchers EXCEPT ![o.s] = << Len(st.wrec) + 1 >> \o @],
     now |-> st.now]

\* The watchers after the _watch calls of `calls`, made in order.
RECURSIVE Registered(_)
Registered(calls) ==
    IF calls = << >>
      THEN [wrec |-> << >>, watchers |-> [s \in Scopes |-> << >>],
            now |-> [call |-> 0, pass |-> 0, by |-> "host"]]
    ELSE IF calls[Len(calls)].op # "watch"
      THEN Registered(SubSeq(calls, 1, Len(calls) - 1))
      ELSE _watch(Registered(SubSeq(calls, 1, Len(calls) - 1)),
                  calls[Len(calls)])

\* The names of the events of the model: an application's event and the one
\* _destroy broadcasts.
EventNames ==
    {"e", "_destroy"}

\* _on(eventName, listener): the listener is pushed onto the scope's array for
\* the event, which is made if it is not there.  ls: the listener arrays.
\* id names the function (o.k; 0: a function nothing else refers to); the
\* entry that the deregister function has set to null has id -1.
_on(ls, o) ==
    [ls EXCEPT ![o.s][o.v] = Append(@, [f |-> o.f, id |-> o.k])]

\* The listeners after the _on calls of `calls`, made in order.
RECURSIVE Listening(_)
Listening(calls) ==
    IF calls = << >>
      THEN [s \in Scopes |-> [n \in EventNames |-> << >>]]
    ELSE IF calls[Len(calls)].op # "on"
      THEN Listening(SubSeq(calls, 1, Len(calls) - 1))
      ELSE _on(Listening(SubSeq(calls, 1, Len(calls) - 1)), calls[Len(calls)])

\* ------------------------------------------------------------- call stack

\* One activation. Of a digest: the loop variables of _digest, __digestOnce
\* and __everyScope, with what the activation has done so far: passes made,
\* post-digest functions run, watch functions evaluated (evals, seen) and
\* listeners called (hits). Of a listener: the arguments it was called with.
Frame(fn, pc, s, code, role) ==
    [fn |-> fn, pc |-> pc, s |-> s, code |-> code, ip |-> 1, role |-> role,
     ttl |-> maxTTL, dirty |-> FALSE, cont |-> TRUE, trav |-> << >>,
     wi |-> 0, w |-> 0, pend |-> "none", passes |-> 0, posts |-> 0,
     det |-> FALSE, held |-> << >>, evals |-> 0, hits |-> 0, seen |-> {},
     args |-> << >>, defaultPrevented |-> FALSE]

Top ==
    stack[Len(stack)]

WithTop(f) ==
    [stack EXCEPT ![Len(stack)] = f]

Pop ==
    SubSeq(stack, 1, Len(stack) - 1)

\* The frame on top is engine code of function fn at position pc.
Running(fn, pc) ==
    /\ stack # << >>
    /\ exc = "none"
    /\ Top.fn = fn
    /\ Top.pc = pc

\* The scope whose watchers the running __digestOnce is iterating.
CurScope(f) ==
    f.trav[Len(f.trav)].s

\* The array _.eachRight was given: the scope's __watchers, or the array that
\* was the scope's __watchers until _destroy assigned a new one.
Iterated(f) ==
    IF f.det THEN f.held ELSE watchers[CurScope(f)]

\* The array __fireEventOnScope iterates: this.__listeners[eventName] as it
\* was read when the loop began (|| [] when there is none).
Fired(f) ==
    IF f.det THEN f.held ELSE listeners[f.s][f.role]

\* _.eachRight reads array[index] on every turn: an index past the end of a
\* shrunk array yields undefined, which `if (watcher)` skips.
CurIndex(f) ==
    IF f.wi <= Len(Iterated(f)) THEN f.wi
    ELSE Len(Iterated(f))

\* The watcher of the current turn: array[index], read before the watch
\* function is called.
CurWatcher(f) ==
    IF f.pc = "compare" THEN f.w ELSE Iterated(f)[CurIndex(f)]

\* The index of the next turn of _.eachRight: one below the index of this turn
\* (at "compare" the index of this turn is the one stored with the watcher).
NextIndex(f) ==
    (IF f.pc = "compare" THEN f.wi ELSE CurIndex(f)) - 1

\* A digest or apply that holds the phase: begun and not yet ended.
InProgress(f) ==
    \/ f.fn = "digest" /\ f.pc # "begin"
    \/ f.fn = "apply" /\ f.pc = "evaluated"

EngineBusy ==
    \E i \in 1 .. Len(stack) : InProgress(stack[i])

\* ------------------------------------------------------------ _digest

\* _digest(), first lines: the reset of __lastDirtyWatch, __beginPhase and the
\* cancelling of a pending _applyAsync timer.
DigestBegin ==
    /\ Running("digest", "begin")
    /\ ~Truthy(Phase(Top.s))
    /\ lastDirtyWatch' = 0
    /\ phase' = __beginPhase(Top.s, "_digest")
    /\ IF applyAsyncId # 0
         THEN /\ timers' = clearTimeout(applyAsyncId)
              /\ stack' = Append(WithTop([Top EXCEPT !.pc = "drain"]),
                                 Frame("flush", "loop", Top.s, Noop, ""))
         ELSE /\ timers' = timers
              /\ stack' = WithTop([Top EXCEPT !.pc = "drain"])
    /\ ev' = Ev("digestBegin", Top.s, 0, applyAsyncId # 0)
    /\ UNCHANGED << tree, watchers, wrec, asyncQueue, applyAsyncQueue,
                    applyAsyncId, postDigestQueue, data, local, exc, env, fuel, threw >>

\* _digest() when __beginPhase throws: __lastDirtyWatch has been reset already.
DigestRejected ==
    /\ Running("digest", "begin")
    /\ Truthy(Phase(Top.s))
    /\ lastDirtyWatch' = 0
    /\ stack' = Pop
    /\ exc' = "PhaseConflict"
    /\ threw' = TRUE
    /\ ev' = Ev("rejected", Top.s, 0, FALSE)
    /\ UNCHANGED << tree, phase, watchers, wrec, asyncQueue, applyAsyncQueue,
                    applyAsyncId, postDigestQueue, timers, data, local, env, fuel >>

\* __flushApplyAsync(): one turn of its loop.
FlushRun ==
    /\ Running("flush", "loop")
    /\ applyAsyncQueue # << >>
    /\ LET t == shift(applyAsyncQueue).item IN
         /\ applyAsyncQueue' = shift(applyAsyncQueue).rest
         /\ stack' = Append(stack, Frame("user", "run", t.scope, t.expression,
                                         "applyAsync"))
         /\ ev' = Ev("applyAsyncRun", t.scope, t.q, FALSE)
    /\ UNCHANGED << tree, phase, watchers, wrec, lastDirtyWatch, asyncQueue,
                    applyAsyncId, postDigestQueue, timers, data, local, exc, env,
                    fuel, threw >>

\* __flushApplyAsync(): the queue is empty, the handle is forgotten.
FlushEnd ==
    /\ Running("flush", "loop")
    /\ applyAsyncQueue = << >>
    /\ applyAsyncId' = 0
    /\ stack' = Pop
    /\ ev' = Ev("flushEnd", Top.s, 0, FALSE)
    /\ UNCHANGED << tree, phase, watchers, wrec, lastDirtyWatch, asyncQueue,
                    applyAsyncQueue, postDigestQueue, timers, data, local, exc, env,
                    fuel, threw >>

\* _digest(): one turn of while (this.__asyncQueue.length).
DrainAsync ==
    /\ Running("digest", "drain")
    /\ asyncQueue # << >>
    /\ LET t == shift(asyncQueue).item IN
         /\ asyncQueue' = shift(asyncQueue).rest
         /\ stack' = Append(stack, Frame("user", "run", t.scope, t.expression,
                                         "async"))
         /\ ev' = Ev("asyncRun", t.scope, t.q, FALSE)
    /\ UNCHANGED << tree, phase, watchers, wrec, lastDirtyWatch,
                    applyAsyncQueue, applyAsyncId, postDigestQueue, timers,
                    data, local, exc, env, fuel, threw >>

\* __digestOnce() is entered: __everyScope starts at the digested scope.
DigestOnce ==
    /\ Running("digest", "drain")
    /\ asyncQueue = << >>
    /\ stack' = WithTop([Top EXCEPT !.pc = "watch", !.dirty = FALSE,
                           !.cont = TRUE, !.passes = @ + 1,
                           !.trav = << [s |-> Top.s, ci |-> 0, n |-> 0] >>,
                           !.wi = Len(watchers[Top.s]),
                           !.det = FALSE, !.held = << >>])
    /\ ev' = Ev("passStart", Top.s, Top.passes + 1, FALSE)
    /\ UNCHANGED << tree, heap, exc, env, fuel, threw >>

\* The watcher the pass is at: reached directly, or after its watch function's
\* side effects have run.
AtWatcher ==
    \/ /\ Running("digest", "watch")
       /\ CurIndex(Top) > 0
       /\ wrec[CurWatcher(Top)].g = Noop
    \/ Running("digest", "compare")

\* watcher.watchFn(scope) for a watch function that does more than read.
CallWatchFn ==
    /\ Running("digest", "watch")
    /\ CurIndex(Top) > 0
    /\ wrec[CurWatcher(Top)].g # Noop
    /\ stack' = Append(WithTop([Top EXCEPT !.pc = "compare",
                                           !.wi = CurIndex(Top),
                                           !.w = CurWatcher(Top)]),
                       Frame("user", "run", CurScope(Top),
                             wrec[CurWatcher(Top)].g, "watchFn"))
    /\ ev' = Ev("watchFn", CurScope(Top), CurWatcher(Top), FALSE)
    /\ UNCHANGED << tree, heap, exc, env, fuel, threw >>

\* __digestOnce(): the value changed; `last` is stored and the listener called.
WatcherDirty ==
    /\ AtWatcher
    /\ LET w == CurWatcher(Top) IN
         /\ ~areEqual(WatchValue(w), wrec[w].last, wrec[w].valueEq)
         /\ lastDirtyWatch' = w
         /\ wrec' = [wrec EXCEPT ![w].last =
                       IF wrec[w].valueEq THEN cloneDeep(WatchValue(w))
                       ELSE WatchValue(w)]
         /\ stack' = Append(WithTop([Top EXCEPT !.pc = "listened",
                                                !.wi = NextIndex(Top) + 1,
                                                !.evals = @ + 1,
                                                !.seen = @ \cup {w},
                                                !.hits = @ + 1]),
                            [Frame("user", "run", CurScope(Top),
                                   wrec[w].listenerFn, "listener")
                               EXCEPT !.w = w,
                                      !.args = << WatchValue(w),
                                                  IF wrec[w].last = initWatchVal
                                                    THEN WatchValue(w)
                                                    ELSE wrec[w].last,
                                                  CurScope(Top) >>])
         /\ ev' = Ev("dirty", CurScope(Top), w, wrec[w].last = initWatchVal)
    /\ UNCHANGED << tree, phase, watchers, asyncQueue, applyAsyncQueue,
                    applyAsyncId, postDigestQueue, timers, data, local, exc, env,
                    fuel, threw >>

\* A sweep that goes on past the watcher that was the last one dirty.
WatcherClean_GoOn ==
    /\ AtWatcher
    /\ LET w == CurWatcher(Top) IN
         /\ areEqual(WatchValue(w), wrec[w].last, wrec[w].valueEq)
         /\ stack' = WithTop([Top EXCEPT !.pc = "watch",
                                         !.wi = NextIndex(Top),
                                         !.evals = @ + 1,
                                         !.seen = @ \cup {w}])
         /\ ev' = Ev("clean", CurScope(Top), w, FALSE)
    /\ UNCHANGED << tree, heap, exc, env, fuel, threw >>

\* __digestOnce(): the value is unchanged; the walk is cut short at the watcher
\* that was the last one dirty.
WatcherClean ==
    /\ AtWatcher
    /\ LET w == CurWatcher(Top) IN
         /\ areEqual(WatchValue(w), wrec[w].last, wrec[w].valueEq)
         /\ IF lastDirtyWatch = w
              THEN /\ stack' = WithTop([Top EXCEPT !.pc = "passEnd",
                                                   !.cont = FALSE,
                                                   !.evals = @ + 1,
                                                   !.seen = @ \cup {w}])
                   /\ ev' = Ev("shortCircuit", CurScope(Top), w, FALSE)
              ELSE /\ stack' = WithTop([Top EXCEPT !.pc = "watch",
                                                   !.wi = NextIndex(Top),
                                                   !.evals = @ + 1,
                                                   !.seen = @ \cup {w}])
                   /\ ev' = Ev("clean", CurScope(Top), w, FALSE)
    /\ UNCHANGED << tree, heap, exc, env, fuel, threw >>

\* A pass that does not note that a listener ran.
ListenerReturned_Clean ==
    /\ Running("digest", "listened")
    /\ stack' = WithTop([Top EXCEPT !.pc = "watch", !.wi = @ - 1])
    /\ ev' = Ev("listened", CurScope(Top), 0, FALSE)
    /\ UNCHANGED << tree, heap, exc, env, fuel, threw >>

\* __digestOnce(): the listener returned; dirty = true.
ListenerReturned ==
    /\ Running("digest", "listened")
    /\ stack' = WithTop([Top EXCEPT !.pc = "watch", !.dirty = TRUE,
                                    !.wi = @ - 1])
    /\ ev' = Ev("listened", CurScope(Top), 0, FALSE)
    /\ UNCHANGED << tree, heap, exc, env, fuel, threw >>

\* A walk that stays on the scope it began on.
WatchersDone_NoChildren ==
    /\ Running("digest", "watch")
    /\ CurIndex(Top) = 0
    /\ stack' = WithTop([Top EXCEPT !.pc = "children",
                           !.trav[Len(Top.trav)].n = 0])
    /\ ev' = Ev("scopeDone", CurScope(Top), 0, FALSE)
    /\ UNCHANGED << tree, heap, exc, env, fuel, threw >>

\* __everyScope(): fn(this) returned true, children.every(...) begins.
WatchersDone ==
    /\ Running("digest", "watch")
    /\ CurIndex(Top) = 0
    /\ stack' = WithTop([Top EXCEPT !.pc = "children",
                           !.trav[Len(Top.trav)].n =
                               Len(children[CurScope(Top)])])
    /\ ev' = Ev("scopeDone", CurScope(Top), 0, FALSE)
    /\ UNCHANGED << tree, heap, exc, env, fuel, threw >>

\* __everyScope(): every() moves to the next child, in index order.
EnterChild ==
    /\ Running("digest", "children")
    /\ LET e == Top.trav[Len(Top.trav)] IN
         /\ e.ci < e.n
         /\ IF e.ci + 1 <= Len(children[e.s])
              THEN LET c == children[e.s][e.ci + 1] IN
                /\ stack' = WithTop([Top EXCEPT
                       !.pc = "watch",
                       !.trav = Append([Top.trav EXCEPT ![Len(Top.trav)].ci = @ + 1],
                                       [s |-> c, ci |-> 0, n |-> 0]),
                       !.wi = Len(watchers[c]),
                       !.det = FALSE, !.held = << >>])
                /\ ev' = Ev("enterScope", c, 0, FALSE)
              ELSE
                /\ stack' = WithTop([Top EXCEPT !.trav[Len(Top.trav)].ci = @ + 1])
                /\ ev' = Ev("noChild", e.s, 0, FALSE)
    /\ UNCHANGED << tree, heap, exc, env, fuel, threw >>

\* __everyScope(): every() returned true for this scope.
LeaveScope ==
    /\ Running("digest", "children")
    /\ LET e == Top.trav[Len(Top.trav)] IN
         /\ e.ci >= e.n
         /\ stack' = WithTop([Top EXCEPT
                !.pc = IF Len(Top.trav) = 1 THEN "passEnd" ELSE "children",
                !.trav = SubSeq(Top.trav, 1, Len(Top.trav) - 1)])
         /\ ev' = Ev("leaveScope", e.s, 0, FALSE)
    /\ UNCHANGED << tree, heap, exc, env, fuel, threw >>

\* A digest that throws on the last permitted turn instead of after it.
Exhausted_AtZero(ttl) ==
    ttl <= 0

\* _digest(): `if (ttl < 0)`, tested after `ttl--`.
Exhausted(ttl) ==
    ttl < 0

\* _digest(): the pass was dirty or work is queued, and ttl allows another turn.
NextIteration ==
    /\ Running("digest", "passEnd")
    /\ Top.dirty \/ asyncQueue # << >>
    /\ ~Exhausted(Top.ttl - 1)
    /\ stack' = WithTop([Top EXCEPT !.pc = "drain", !.ttl = @ - 1])
    /\ ev' = Ev("again", Top.s, Top.passes, Top.dirty)
    /\ UNCHANGED << tree, heap, exc, env, fuel, threw >>

\* _digest(): ttl < 0: __clearPhase() and throw.
TTLExceeded ==
    /\ Running("digest", "passEnd")
    /\ Top.dirty \/ asyncQueue # << >>
    /\ Exhausted(Top.ttl - 1)
    /\ phase' = __clearPhase(Top.s)
    /\ stack' = Pop
    /\ exc' = "MaxDigest"
    /\ threw' = TRUE
    /\ ev' = Ev("ttl", Top.s, Top.posts, FALSE)
    /\ UNCHANGED << tree, watchers, wrec, lastDirtyWatch, asyncQueue,
                    applyAsyncQueue, applyAsyncId, postDigestQueue, timers,
                    data, local, env, fuel >>

\* _digest(): the do-while loop ends: the pass was clean, nothing is queued.
Converged ==
    /\ Running("digest", "passEnd")
    /\ ~(Top.dirty \/ asyncQueue # << >>)
    /\ stack' = WithTop([Top EXCEPT !.pc = "post"])
    /\ ev' = Ev("converged", Top.s, Top.passes, FALSE)
    /\ UNCHANGED << tree, heap, exc, env, fuel, threw >>

\* _digest(): one turn of while (this.__postDigestQueue.length).
RunPostDigest ==
    /\ Running("digest", "post")
    /\ postDigestQueue # << >>
    /\ LET t == shift(postDigestQueue).item IN
         /\ postDigestQueue' = shift(postDigestQueue).rest
         /\ stack' = Append(WithTop([Top EXCEPT !.posts = @ + 1]),
                            Frame("user", "run", Top.s, t.fn, "post"))
         /\ ev' = Ev("postRun", Top.s, t.q, FALSE)
    /\ UNCHANGED << tree, phase, watchers, wrec, lastDirtyWatch, asyncQueue,
                    applyAsyncQueue, applyAsyncId, timers, data, local, exc, env,
                    fuel, threw >>

\* _digest(): __clearPhase() and return.
DigestReturn ==
    /\ Running("digest", "post")
    /\ postDigestQueue = << >>
    /\ phase' = __clearPhase(Top.s)
    /\ stack' = Pop
    /\ ev' = Ev("digestReturn", Top.s, Top.posts, FALSE)
    /\ UNCHANGED << tree, watchers, wrec, lastDirtyWatch, asyncQueue,
                    applyAsyncQueue, applyAsyncId, postDigestQueue, timers,
                    data, local, exc, env, fuel, threw >>

\* A catch block that leaves the loop it is in.
AfterCatch_Leave(f) ==
    IF f.fn = "fire" THEN [f EXCEPT !.wi = Len(Fired(f)) + 1]
    ELSE IF f.fn = "digest" /\ f.pc \in {"compare", "listened"}
      THEN [f EXCEPT !.pc = "watch", !.wi = 0]
    ELSE f

\* The frame after its catch block: in __digestOnce the iteratee returns and
\* _.eachRight moves to the index below; the while loops of _digest,
\* __flushApplyAsync and __fireEventOnScope go on where they are.
AfterCatch(f) ==
    IF f.fn = "digest" /\ f.pc \in {"compare", "listened"}
      THEN [f EXCEPT !.pc = "watch", !.wi = @ - 1]
      ELSE f

\* catch (err) { console.error(err) } in __digestOnce, _digest and
\* __flushApplyAsync: the loop goes on with its next turn.  In __digestOnce the
\* rest of the try block, dirty = true included, is skipped.
CatchError ==
    /\ stack # << >>
    /\ exc # "none"
    /\ Top.fn \in {"digest", "flush", "fire"}
    /\ exc' = "none"
    /\ stack' = WithTop(AfterCatch(Top))
    /\ ev' = Ev("caught", Top.s, 0, FALSE)
    /\ UNCHANGED << tree, heap, env, fuel, threw >>

\* -------------------------------------------------------------- _apply

\* _apply(expr): __beginPhase('_apply') succeeds and expr is evaluated.
ApplyBegin ==
    /\ Running("apply", "begin")
    /\ ~Truthy(Phase(Top.s))
    /\ phase' = __beginPhase(Top.s, "_apply")
    /\ stack' = Append(WithTop([Top EXCEPT !.pc = "evaluated"]),
                       Frame("user", "run", Top.s, Top.code, "apply"))
    /\ ev' = Ev("applyBegin", Top.s, 0, FALSE)
    /\ UNCHANGED << tree, watchers, wrec, lastDirtyWatch, asyncQueue,
                    applyAsyncQueue, applyAsyncId, postDigestQueue, timers,
                    data, local, exc, env, fuel, threw >>

\* _apply(expr): __beginPhase throws inside the try block, so the finally
\* block runs: __clearPhase() and this._root._digest().
ApplyRejected ==
    /\ Running("apply", "begin")
    /\ Truthy(Phase(Top.s))
    /\ phase' = __clearPhase(Top.s)
    /\ stack' = Append(WithTop([Top EXCEPT !.pc = "digested",
                                           !.pend = "PhaseConflict"]),
                       Frame("digest", "begin", _root(Top.s), Noop, ""))
    /\ threw' = TRUE
    /\ ev' = Ev("rejected", Top.s, 1, FALSE)
    /\ UNCHANGED << tree, watchers, wrec, lastDirtyWatch, asyncQueue,
                    applyAsyncQueue, applyAsyncId, postDigestQueue, timers,
                    data, local, exc, env, fuel >>

\* _apply(expr): expr returned or threw; finally { this.__clearPhase();
\* this._root._digest() }.
ApplyFinally ==
    /\ stack # << >>
    /\ Top.fn = "apply"
    /\ Top.pc = "evaluated"
    /\ phase' = __clearPhase(Top.s)
    /\ exc' = "none"
    /\ stack' = Append(WithTop([Top EXCEPT !.pc = "digested", !.pend = exc]),
                       Frame("digest", "begin", _root(Top.s), Noop, ""))
    /\ ev' = Ev("applyFinally", Top.s, 0, exc # "none")
    /\ UNCHANGED << tree, watchers, wrec, lastDirtyWatch, asyncQueue,
                    applyAsyncQueue, applyAsyncId, postDigestQueue, timers,
                    data, local, env, fuel, threw >>

\* _apply(expr): the finally block is done.  An exception of the digest
\* replaces the pending one; otherwise the pending one is thrown again.
ApplyReturn ==
    /\ stack # << >>
    /\ Top.fn = "apply"
    /\ Top.pc = "digested"
    /\ exc' = IF exc # "none" THEN exc ELSE Top.pend
    /\ stack' = Pop
    /\ ev' = Ev("applyReturn", Top.s, 0, FALSE)
    /\ UNCHANGED << tree, heap, env, fuel, threw >>

\* ------------------------------------------- calls made by user functions

\* The host program between two of its calls, and no callback running.
Idle ==
    stack = << >> /\ exc = "none"

\* The calls that can be made now: by the host program when idle, or the next
\* operation of the user function on top of the stack.
CurOps ==
    IF Idle
      THEN IF fuel > 0 THEN env ELSE {}
    ELSE IF stack # << >> /\ exc = "none" /\ Top.fn = "user"
              /\ Top.ip <= Len(Top.code)
      THEN {Top.code[Top.ip]}
    ELSE {}

\* The stack once the call has been made and has returned.
Resume ==
    IF stack = << >> THEN stack ELSE WithTop([Top EXCEPT !.ip = @ + 1])

Spend ==
    IF stack = << >> THEN fuel - 1 ELSE fuel

Since ==
    IF stack = << >> THEN FALSE ELSE threw

\* A user function writes a watched property.
Mutate ==
    \E o \in CurOps :
      /\ o.op \in {"set", "copy", "toggle"}
      /\ data' = [data EXCEPT ![IF o.op = "copy" THEN o.j ELSE o.k] =
                    CASE o.op = "set" -> o.v
                      [] o.op = "copy" -> data[o.k]
                      [] OTHER -> IF data[o.k] = "a" THEN "b" ELSE "a"]
      /\ stack' = Resume
      /\ fuel' = Spend
      /\ threw' = Since
      /\ ev' = Ev("write", 0, IF o.op = "copy" THEN o.j ELSE o.k, FALSE)
      /\ UNCHANGED << tree, phase, watchers, wrec, lastDirtyWatch, asyncQueue,
                      applyAsyncQueue, applyAsyncId, postDigestQueue, timers,
                      local, exc, env >>

\* The moment of a call: which call of the host program is running, which
\* pass of the innermost digest in progress (0: none), and who is calling.
Now ==
    LET D == {i \in 1 .. Len(stack) :
                stack[i].fn = "digest" /\ stack[i].pc # "begin"}
    IN  [call |-> MaxCalls - Spend,
         pass |-> IF D = {} THEN 0
                  ELSE stack[CHOOSE i \in D : \A j \in D : j <= i].passes,
         by |-> IF stack = << >> THEN "host" ELSE Top.role]

\* A user function writes into the object that property k holds: whatever
\* holds the same object (a property, a watcher's `last`, an argument of a
\* running listener) sees the write; a clone does not.
Poke ==
    \E o \in CurOps :
      /\ o.op = "poke"
      /\ LET old == data[o.k]
             new == CASE old = "o1:x" -> "o1:y" [] old = "o1:y" -> "o1:x"
                      [] old = "o2:x" -> "o2:y" [] old = "o2:y" -> "o2:x"
                      [] OTHER -> old
             Seen(v) == IF v = old THEN new ELSE v
         IN
           /\ data' = [k \in Vars |-> Seen(data[k])]
           /\ wrec' = [w \in DOMAIN wrec |->
                         [wrec[w] EXCEPT !.last = Seen(@)]]
           /\ stack' = [i \in DOMAIN Resume |->
                          [Resume[i] EXCEPT !.args =
                             [a \in DOMAIN @ |-> IF a = 3 THEN @[a]
                                                 ELSE Seen(@[a])]]]
      /\ fuel' = Spend
      /\ threw' = Since
      /\ ev' = Ev("write", 0, o.k, TRUE)
      /\ UNCHANGED << tree, phase, watchers, lastDirtyWatch, asyncQueue,
                      applyAsyncQueue, applyAsyncId, postDigestQueue, timers,
                      local, exc, env >>

\* A call of _watch by a user function or by the host program.
Watch ==
    \E o \in CurOps :
      /\ o.op = "watch"
      /\ wrec' = _watch([watchers |-> watchers, wrec |-> wrec,
                         now |-> Now], o).wrec
      /\ watchers' = _watch([watchers |-> watchers, wrec |-> wrec,
                             now |-> Now], o).watchers
      /\ lastDirtyWatch' = 0
      /\ stack' = Resume
      /\ fuel' = Spend
      /\ threw' = Since
      /\ ev' = Ev("watch", o.s, Len(wrec) + 1, FALSE)
      /\ UNCHANGED << tree, phase, asyncQueue, applyAsyncQueue, applyAsyncId,
                      postDigestQueue, timers, data, local, exc, env >>

\* _evalAsync(expr). With the task the model keeps its rank in the queue (q)
\* and whether its scope had been destroyed when it was queued (late).
EvalAsync ==
    \E o \in CurOps :
      /\ o.op \in {"evalAsync", "requeue"}
      /\ LET schedule == ~Truthy(Phase(o.s)) /\ asyncQueue = << >>
             expr == IF o.op = "requeue" THEN Top.code ELSE o.f
         IN
           /\ schedule => Len(timers) < MaxTimers
           /\ timers' = IF schedule
                          THEN Append(timers, [id |-> NewTimerId,
                                               kind |-> "evalAsync", s |-> o.s])
                          ELSE timers
           /\ asyncQueue' = Append(asyncQueue,
                                   [scope |-> o.s, expression |-> expr,
                                    q |-> Stamp(asyncQueue),
                                    late |-> o.s \in destroyed])
           /\ ev' = Ev("evalAsync", o.s, Stamp(asyncQueue), schedule)
      /\ stack' = Resume
      /\ fuel' = Spend
      /\ threw' = Since
      /\ UNCHANGED << tree, phase, watchers, wrec, lastDirtyWatch,
                      applyAsyncQueue, applyAsyncId, postDigestQueue, data, local,
                      exc, env >>

\* _applyAsync(expr)
ApplyAsync ==
    \E o \in CurOps :
      /\ o.op = "applyAsync"
      /\ applyAsyncQueue' = Append(applyAsyncQueue,
                                   [scope |-> o.s, expression |-> o.f,
                                    q |-> Stamp(applyAsyncQueue)])
      /\ IF applyAsyncId = 0
           THEN /\ Len(timers) < MaxTimers
                /\ applyAsyncId' = NewTimerId
                /\ timers' = Append(timers, [id |-> NewTimerId,
                                             kind |-> "applyAsync", s |-> o.s])
           ELSE UNCHANGED << applyAsyncId, timers >>
      /\ stack' = Resume
      /\ fuel' = Spend
      /\ threw' = Since
      /\ ev' = Ev("applyAsync", o.s, Stamp(applyAsyncQueue), applyAsyncId = 0)
      /\ UNCHANGED << tree, phase, watchers, wrec, lastDirtyWatch, asyncQueue,
                      postDigestQueue, data, local, exc, env >>

\* Array.prototype.unshift() in the place of push(): the function goes first.
__postDigest_Unshift(fn) ==
    << [fn |-> fn, q |-> Stamp(postDigestQueue)] >> \o postDigestQueue

\* __postDigest(fn): this.__postDigestQueue.push(fn)
__postDigest(fn) ==
    Append(postDigestQueue, [fn |-> fn, q |-> Stamp(postDigestQueue)])

\* A call of __postDigest(fn).
PostDigest ==
    \E o \in CurOps :
      /\ o.op = "postDigest"
      /\ postDigestQueue' = __postDigest(o.f)
      /\ stack' = Resume
      /\ fuel' = Spend
      /\ threw' = Since
      /\ ev' = Ev("postDigest", o.s, Stamp(postDigestQueue), FALSE)
      /\ UNCHANGED << tree, phase, watchers, wrec, lastDirtyWatch, asyncQueue,
                      applyAsyncQueue, applyAsyncId, timers, data, local, exc, env >>

\* A call of _digest(), _apply(expr) or __flushApplyAsync(): a new frame.  A
\* user function that calls _digest or _apply on a full stack gets a RangeError.
Call ==
    \E o \in CurOps :
      /\ o.op \in {"digest", "apply", "flush"}
      /\ IF o.op # "flush" /\ Len(stack) >= MaxStack
           THEN /\ stack' = Resume
                /\ exc' = "RangeError"
                /\ threw' = TRUE
           ELSE /\ stack' = Append(Resume,
                                   Frame(o.op,
                                         IF o.op = "flush" THEN "loop" ELSE "begin",
                                         o.s, o.f, ""))
                /\ exc' = "none"
                /\ threw' = Since
      /\ fuel' = Spend
      /\ ev' = Ev("call", o.s, 0, FALSE)
      /\ UNCHANGED << tree, heap, env >>

\* throw new Error() in a user function.
Throw ==
    \E o \in CurOps :
      /\ o.op = "throw"
      /\ stack # << >>
      /\ stack' = Pop
      /\ exc' = "UserError"
      /\ threw' = TRUE
      /\ ev' = Ev("throw", Top.s, 0, FALSE)
      /\ UNCHANGED << tree, heap, env, fuel >>

\* A user function returns, or an exception passes through it: it has no
\* try block.
Return ==
    /\ stack # << >>
    /\ Top.fn = "user"
    /\ exc # "none" \/ Top.ip > Len(Top.code)
    /\ stack' = Pop
    /\ ev' = Ev("return", Top.s, 0, exc # "none")
    /\ UNCHANGED << tree, heap, exc, env, fuel, threw >>

\* An exception leaves the host program's call: the host reports it.
Uncaught ==
    /\ stack = << >>
    /\ exc # "none"
    /\ exc' = "none"
    /\ ev' = Ev("uncaught", 0, 0, FALSE)
    /\ UNCHANGED << tree, heap, stack, env, fuel, threw >>

\* A setTimeout(fn, 0) callback runs: timers run in the order they were set,
\* each on an empty stack.  _applyAsync's callback applies the flush on the
\* scope that set the timer; _evalAsync's digests from the root if the queue
\* still holds work.
Tick ==
    /\ Idle
    /\ timers # << >>
    /\ LET t == Head(timers) IN
         /\ timers' = Tail(timers)
         /\ stack' = IF t.kind = "applyAsync"
                       THEN << Frame("apply", "begin", t.s, FlushFn(t.s), "") >>
                     ELSE IF asyncQueue # << >>
                       THEN << Frame("digest", "begin", _root(t.s), Noop, "") >>
                     ELSE << >>
         /\ ev' = Ev("tick", t.s, t.id, t.kind = "applyAsync")
    /\ threw' = FALSE
    /\ UNCHANGED << tree, phase, watchers, wrec, lastDirtyWatch, asyncQueue,
                    applyAsyncQueue, applyAsyncId, postDigestQueue, data, local, exc,
                    env, fuel >>

\* ------------------------------------------------- deregistering a watch

\* Array.prototype.splice(index, 1) at the place of watcher w.
Without(q, w) ==
    SelectSeq(q, LAMBDA x : x # w)

\* The function _watch returned: the watcher is looked up in the __watchers of
\* the scope it was registered on and, if it is there, spliced out.
Unwatch ==
    \E o \in CurOps :
      /\ o.op = "unwatch"
      /\ IF \E s \in Scopes : \E i \in DOMAIN watchers[s] : watchers[s][i] = o.k
           THEN /\ watchers' = [s \in Scopes |-> Without(watchers[s], o.k)]
                /\ lastDirtyWatch' = 0
           ELSE UNCHANGED << watchers, lastDirtyWatch >>
      /\ stack' = Resume
      /\ fuel' = Spend
      /\ threw' = Since
      /\ ev' = Ev("unwatch", 0, o.k, FALSE)
      /\ UNCHANGED << tree, phase, wrec, asyncQueue, applyAsyncQueue,
                      applyAsyncId, postDigestQueue, timers, data, local, exc, env >>

\* ------------------------------------------------------------ _watchGroup

\* _watchGroup: watchGroupListener, the function the group hands to
\* _evalAsync; with no accessors (n = 0) the function that calls the listener
\* if shouldCall.
watchGroupListener(s, n, f) ==
    IF n = 0 THEN << Op("groupCall", s, 0, 0, "", f, Noop) >>
    ELSE << Op("groupCall", s, n, 0, "", f, Noop),
            Op("groupDone", s, 0, 0, "", Noop, Noop) >>

\* s._watchGroup(ks.map(k => scope => root[k]), f): one _watch per accessor,
\* whose listener notes the values; with no accessors one _evalAsync.
_watchGroup(s, ks, f) ==
    IF ks = << >> THEN DoEvalAsync(s, watchGroupListener(s, 0, f))
    ELSE [i \in 1 .. Len(ks) |->
            DoWatch(s, ks[i], << Op("groupItem", s, i, Len(ks), "", f, Noop) >>,
                    Noop)[1]]

\* The listener of the group's i-th watcher: the values are stored, and the
\* first change since the group listener last ran schedules it.
GroupItem ==
    \E o \in CurOps :
      /\ o.op = "groupItem"
      /\ local' = [local EXCEPT !.newValues[o.k] = Top.args[1],
                                !.oldValues[o.k] = Top.args[2],
                                !.changeReactionSchedules = TRUE,
                                !.noted = Now]
      /\ stack' = IF local.changeReactionSchedules THEN Resume
                  ELSE WithTop([Top EXCEPT
                         !.code = DoEvalAsync(o.s,
                                     watchGroupListener(o.s, o.j, o.f)),
                         !.ip = 1])
      /\ ev' = Ev("groupItem", o.s, o.k, ~local.changeReactionSchedules)
      /\ UNCHANGED << tree, phase, watchers, wrec, lastDirtyWatch, asyncQueue,
                      applyAsyncQueue, applyAsyncId, postDigestQueue, timers,
                      data, exc, env, fuel, threw >>

\* watchGroupListener calls listenerFn(newValues, firstRun ? newValues :
\* oldValues, this); the function of a group without accessors calls
\* listenerFn(newValues, newValues, this) if shouldCall.
GroupCall ==
    \E o \in CurOps :
      /\ o.op = "groupCall"
      /\ IF o.k = 0 /\ ~local.shouldCall
           THEN /\ stack' = Resume
                /\ ev' = Ev("groupSkip", o.s, 0, FALSE)
                /\ UNCHANGED local
           ELSE /\ stack' = Append(Resume,
                     [Frame("user", "run", o.s, o.f, "groupListener")
                        EXCEPT !.args = << local.newValues,
                                          IF local.firstRun \/ o.k = 0
                                            THEN local.newValues
                                            ELSE local.oldValues,
                                          o.s >>])
                /\ local' = [local EXCEPT !.firstRun = (o.k = 0 /\ @),
                                          !.fired = IF o.k = 0 THEN @ ELSE Now,
                                          !.given = IF o.k = 0 THEN @
                                                    ELSE local.newValues]
                /\ ev' = Ev("groupListener", o.s, o.k, local.firstRun)
      /\ UNCHANGED << tree, phase, watchers, wrec, lastDirtyWatch, asyncQueue,
                      applyAsyncQueue, applyAsyncId, postDigestQueue, timers,
                      data, exc, env, fuel, threw >>

\* watchGroupListener, after the listener returned:
\* changeReactionSchedules = false.
GroupDone ==
    \E o \in CurOps :
      /\ o.op = "groupDone"
      /\ local' = [local EXCEPT !.changeReactionSchedules = FALSE]
      /\ stack' = Resume
      /\ ev' = Ev("groupDone", o.s, 0, FALSE)
      /\ UNCHANGED << tree, phase, watchers, wrec, lastDirtyWatch, asyncQueue,
                      applyAsyncQueue, applyAsyncId, postDigestQueue, timers,
                      data, exc, env, fuel, threw >>

\* The function _watchGroup returned: every destroyFn is called, each
\* splicing its watcher (ids o.j .. o.j + o.k - 1) out if it is there; for a
\* group without accessors (o.k = 0) shouldCall = false.
GroupOff ==
    \E o \in CurOps :
      /\ o.op = "groupOff"
      /\ LET W == o.j .. (o.j + o.k - 1) IN
           IF \E s \in Scopes : \E i \in DOMAIN watchers[s] : watchers[s][i] \in W
             THEN /\ watchers' = [s \in Scopes |->
                                    SelectSeq(watchers[s], LAMBDA x : x \notin W)]
                  /\ lastDirtyWatch' = 0
             ELSE UNCHANGED << watchers, lastDirtyWatch >>
      /\ local' = IF o.k = 0 THEN [local EXCEPT !.shouldCall = FALSE]
                  ELSE [local EXCEPT !.off = TRUE]
      /\ stack' = Resume
      /\ fuel' = Spend
      /\ threw' = Since
      /\ ev' = Ev("groupOff", 0, o.k, FALSE)
      /\ UNCHANGED << tree, phase, wrec, asyncQueue, applyAsyncQueue,
                      applyAsyncId, postDigestQueue, timers, data, exc, env >>

\* ------------------------------------------------------- _watchCollection

\* The values the host program assigns to the watched property.
Collections ==
    LET none == [k \in Keys |-> "absent"] IN
    { Value("primitive", v, << >>, none) : v \in {"undefined", "a", "NaN"} }
      \cup { Value("array", "", q, none) :
               q \in { << >>, << "a" >>, << "NaN" >>, << "a", "NaN" >>,
                       << "NaN", "a" >>, << "a", "undefined" >> } }
      \cup { Value("object", "", << >>,
                   [k \in Keys |-> CASE k = "x" -> x [] k = "y" -> y
                                      [] OTHER -> l]) :
               x \in {"absent", "a", "NaN"}, y \in {"absent", "a"},
               l \in {"absent", "0", "2"} }

\* function strictIsArrayLike(obj), for an obj that _.isObject: _.isArrayLike
\* asks for a length that is a number; a length above 0 needs an own
\* property length - 1, which arrays have and the objects here have not.
strictIsArrayLike(obj) ==
    \/ obj.kind = "array"
    \/ obj.kind = "object" /\ obj.props["length"] = "0"

\* A watch function that counts a change whenever the value as a whole is
\* not what it was, whatever its kind.
internalWatchFn_Whole(c, newValue) ==
    [oldValue |-> newValue, oldLength |-> c.oldLength,
     changeCount |-> IF newValue = c.oldValue THEN c.changeCount
                     ELSE c.changeCount + 1]

\* internalWatchFn of _watchCollection: newValue is what the watched
\* expression returned, c the captured oldValue, oldLength and changeCount;
\* the result is those three after the call (changeCount is returned).
internalWatchFn(c, newValue) ==
    IF newValue.kind # "primitive"
      THEN IF strictIsArrayLike(newValue)
        THEN LET items == newValue.items
                 wasArray == c.oldValue.kind = "array"
                 old == IF wasArray THEN c.oldValue.items ELSE << >>
                 resized == [i \in 1 .. Len(items) |->
                               IF i <= Len(old) THEN old[i] ELSE "undefined"]
                 differ == {i \in 1 .. Len(items) :
                              ~areEqual(items[i], resized[i], FALSE)}
             IN  [oldValue |-> Value("array", "", items, Undefined.props),
                  oldLength |-> c.oldLength,
                  changeCount |-> c.changeCount
                                    + (IF wasArray THEN 0 ELSE 1)
                                    + (IF Len(items) # Len(old) THEN 1 ELSE 0)
                                    + Cardinality(differ)]
        ELSE LET reset == \/ c.oldValue.kind = "primitive"
                          \/ strictIsArrayLike(c.oldValue)
                 old == IF reset THEN Undefined.props ELSE c.oldValue.props
                 own == {k \in Keys : newValue.props[k] # "absent"}
                 added == {k \in own : old[k] = "absent"}
                 changed == {k \in own \ added :
                               ~areEqual(newValue.props[k], old[k], FALSE)}
                 grown == (IF reset THEN 0 ELSE c.oldLength) + Cardinality(added)
                 gone == {k \in Keys : old[k] # "absent" /\ k \notin own}
             IN  [oldValue |-> Value("object", "", << >>, newValue.props),
                  oldLength |-> IF grown > Cardinality(own)
                                  THEN grown - Cardinality(gone) ELSE grown,
                  changeCount |-> c.changeCount
                                    + (IF reset THEN 1 ELSE 0)
                                    + Cardinality(added) + Cardinality(changed)
                                    + (IF grown > Cardinality(own) THEN 1 ELSE 0)]
      ELSE [oldValue |-> newValue,
            oldLength |-> c.oldLength,
            changeCount |-> c.changeCount
                              + (IF /\ c.oldValue.kind = "primitive"
                                    /\ areEqual(newValue.v, c.oldValue.v, FALSE)
                                   THEN 0 ELSE 1)]

\* The watch function that _watchCollection registers runs: internalWatchFn
\* is applied to the watched property, and the count it returns is handed to
\* the digest through property o.j, which nothing else reads.
Collect ==
    \E o \in CurOps :
      /\ o.op = "collect"
      /\ LET c == internalWatchFn([oldValue |-> local.oldValue,
                                   oldLength |-> local.oldLength,
                                   changeCount |-> local.changeCount],
                                  local.value)
         IN  /\ local' = [local EXCEPT !.oldValue = c.oldValue,
                                       !.oldLength = c.oldLength,
                                       !.changeCount = c.changeCount,
                                       !.before = local.at,
                                       !.at = local.value,
                                       !.looked = IF @ = 0 THEN 1 ELSE 2]
             /\ data' = [data EXCEPT ![o.j] = ToString(c.changeCount)]
      /\ stack' = Resume
      /\ ev' = Ev("collect", o.s, local.changeCount, local.looked > 0)
      /\ UNCHANGED << tree, phase, watchers, wrec, lastDirtyWatch, asyncQueue,
                      applyAsyncQueue, applyAsyncId, postDigestQueue, timers,
                      exc, env, fuel, threw >>

\* The host program assigns the watched property: root.coll = v, with v the
\* one element of o.f.
SetColl ==
    \E o \in CurOps :
      /\ o.op = "setColl"
      /\ local' = [local EXCEPT !.value = o.f[1]]
      /\ stack' = Resume
      /\ fuel' = Spend
      /\ threw' = Since
      /\ ev' = Ev("write", 0, 0, FALSE)
      /\ UNCHANGED << tree, phase, watchers, wrec, lastDirtyWatch, asyncQueue,
                      applyAsyncQueue, applyAsyncId, postDigestQueue, timers,
                      data, exc, env >>

\* -------------------------------------------------------- one-time watch

\* The _watch call of oneTimeWatchDelegate for `::expr`, expr reading
\* property k; w is the watcher it registers.  The listener keeps the new
\* value, calls listnerFn (f) and queues the post-digest check; for an array
\* or object literal (literal = "literal") testFn is isAnyUndefined, and the
\* property holds the literal: "[u]" with an undefined element, "[a]" with
\* none.
oneTimeWatchDelegate(s, k, f, valueEq, literal, w) ==
    << Op("watch", s, k, 0, valueEq,
          << Op("keepLast", s, w, 0, literal, Noop, Noop) >> \o f
            \o DoPostDigest(s, << Op("testLast", s, w, 0, literal, Noop, Noop) >>),
          Noop) >>

\* lastValue = newValue, the first statement of the one-time listener.
KeepLast ==
    \E o \in CurOps :
      /\ o.op = "keepLast"
      /\ local' = [local EXCEPT !.lastValue[o.k] = Top.args[1]]
      /\ stack' = Resume
      /\ ev' = Ev("keepLast", o.s, o.k, FALSE)
      /\ UNCHANGED << tree, phase, watchers, wrec, lastDirtyWatch, asyncQueue,
                      applyAsyncQueue, applyAsyncId, postDigestQueue, timers,
                      data, exc, env, fuel, threw >>

\* The function the one-time listener queued with __postDigest:
\* if (!testFn(lastValue)) unwatch(), testFn being _.isUndefined or, for a
\* literal, isAnyUndefined.
TestLast ==
    \E o \in CurOps :
      /\ o.op = "testLast"
      /\ LET testFn(v) == IF o.v = "literal" THEN v = "[u]"
                          ELSE v = "undefined"
         IN  /\ stack' = IF testFn(local.lastValue[o.k]) THEN Resume
                         ELSE WithTop([Top EXCEPT !.code = DoUnwatch(o.k),
                                                  !.ip = 1])
             /\ ev' = Ev("testLast", o.s, o.k, ~testFn(local.lastValue[o.k]))
      /\ UNCHANGED << tree, heap, exc, env, fuel, threw >>

\* ---------------------------------------------------------------- filters

\* register(name, factory): filters[name] = factory(); without a factory
\* (o.k = 0) it throws.
Register ==
    \E o \in CurOps :
      /\ o.op = "register"
      /\ IF o.k = 0
           THEN /\ exc' = "Error"
                /\ threw' = TRUE
                /\ UNCHANGED local
           ELSE /\ local' = [local EXCEPT !.filters[o.v] = o.k]
                /\ exc' = "none"
                /\ threw' = Since
      /\ stack' = Resume
      /\ fuel' = Spend
      /\ ev' = Ev("register", 0, o.k, FALSE)
      /\ UNCHANGED << tree, phase, watchers, wrec, lastDirtyWatch, asyncQueue,
                      applyAsyncQueue, applyAsyncId, postDigestQueue, timers,
                      data, env >>

\* clear(): filters = {}.
Clear ==
    \E o \in CurOps :
      /\ o.op = "clear"
      /\ local' = [local EXCEPT !.filters = [n \in DOMAIN @ |-> 0]]
      /\ stack' = Resume
      /\ fuel' = Spend
      /\ threw' = Since
      /\ ev' = Ev("clear", 0, 0, FALSE)
      /\ UNCHANGED << tree, phase, watchers, wrec, lastDirtyWatch, asyncQueue,
                      applyAsyncQueue, applyAsyncId, postDigestQueue, timers,
                      data, exc, env >>

\* A compiler whose generated function has no filter yet.
Compile_Late ==
    \E o \in CurOps :
      /\ o.op = "compile"
      /\ local' = [local EXCEPT !.v0 = 0, !.compiledWith = local.filters]
      /\ stack' = Resume
      /\ fuel' = Spend
      /\ threw' = Since
      /\ ev' = Ev("compile", 0, 0, FALSE)
      /\ UNCHANGED << tree, phase, watchers, wrec, lastDirtyWatch, asyncQueue,
                      applyAsyncQueue, applyAsyncId, postDigestQueue, timers,
                      data, exc, env >>

\* fn = parse('x | up'): ASTCompiler.compile runs the generated text, whose
\* filterPrefix `var v0 = filter('up');` stands before `var fn = function
\* (s, l) {...}`, so it is executed now, once.
Compile ==
    \E o \in CurOps :
      /\ o.op = "compile"
      /\ local' = [local EXCEPT !.v0 = local.filters[o.v],
                                !.compiledWith = local.filters]
      /\ stack' = Resume
      /\ fuel' = Spend
      /\ threw' = Since
      /\ ev' = Ev("compile", 0, local.filters[o.v], FALSE)
      /\ UNCHANGED << tree, phase, watchers, wrec, lastDirtyWatch, asyncQueue,
                      applyAsyncQueue, applyAsyncId, postDigestQueue, timers,
                      data, exc, env >>

\* fn(scope): the generated body returns v0(s.x); with no filter in v0 the
\* call is a TypeError.
Invoke ==
    \E o \in CurOps :
      /\ o.op = "invoke"
      /\ local.v0 # -1
      /\ local' = [local EXCEPT !.applied = local.v0]
      /\ exc' = IF local.v0 = 0 THEN "TypeError" ELSE "none"
      /\ threw' = IF local.v0 = 0 THEN TRUE ELSE Since
      /\ stack' = Resume
      /\ fuel' = Spend
      /\ ev' = Ev("invoke", 0, local.v0, local.v0 = 0)
      /\ UNCHANGED << tree, phase, watchers, wrec, lastDirtyWatch, asyncQueue,
                      applyAsyncQueue, applyAsyncId, postDigestQueue, timers,
                      data, env >>

\* ------------------------------------------------------------- assignment

\* (object).key as JavaScript reads it: the own property, or for the scope
\* made by Object.create the property of its prototype; undefined when there
\* is none, and for a primitive object.
Get(h, inh, object, key) ==
    IF object \notin Objs THEN "undefined"
    ELSE IF h[object][key] # "absent" THEN h[object][key]
    ELSE IF object = "s" /\ inh /\ h["p"][key] # "absent" THEN h["p"][key]
    ELSE "undefined"

\* recurse(Identifier name, create): `if (l && l.hasOwnProperty(name)) v =
\* l.name`; with create `if (!(l && l.hasOwnProperty(name)) && s && !(s &&
\* s.hasOwnProperty(name))) s.name = {}`; then `if (!(l && l.hasOwnProperty
\* (name)) && s) v = s.name`.  h: the objects; the result is the objects
\* afterwards and the value of v.
identifier(h, loc, inh, name, create) ==
    LET inL == loc /\ h["l"][name] # "absent"
        new == CHOOSE n \in {"n1", "n2", "n3"} :
                 \A o \in Objs : \A k \in {"a", "b", "c"} : h[o][k] # n
        h1 == IF create /\ ~inL /\ h["s"][name] = "absent"
                THEN [h EXCEPT !["s"][name] = new]
                ELSE h
    IN  [h |-> h1,
         v |-> IF inL THEN h["l"][name] ELSE Get(h1, inh, "s", name),
         err |-> FALSE]

\* recurse(MemberExpression left.name, create), not computed: with create
\* `if (!(left).name) (left).name = {}`, which throws a TypeError when left is
\* undefined and does nothing when left is a primitive; then `if (left) v =
\* ensureSafeObject((left).name)`.
member(h, inh, left, name, create) ==
    LET new == CHOOSE n \in {"n1", "n2", "n3"} :
                 \A o \in Objs : \A k \in {"a", "b", "c"} : h[o][k] # n
        h1 == IF create /\ left \in Objs
                   /\ Get(h, inh, left, name) \in {"undefined", "0"}
                THEN [h EXCEPT ![left][name] = new]
                ELSE h
    IN  [h |-> h1,
         v |-> Get(h1, inh, left, name),
         err |-> create /\ left = "undefined"]

\* recurse(AssignmentExpression `a.b.c = 233`): the left side is compiled
\* with create, the outermost member included, and the value is assigned to
\* (context).c, the context being the value of a.b; assigning to a property
\* of undefined is a TypeError.
assignment(h, loc, inh) ==
    LET a == identifier(h, loc, inh, "a", TRUE)
        b == member(a.h, inh, a.v, "b", TRUE)
        c == member(b.h, inh, b.v, "c", TRUE)
    IN  IF b.err \/ c.err \/ b.v = "undefined"
          THEN [h |-> IF b.err THEN a.h ELSE b.h, err |-> TRUE]
          ELSE [h |-> IF b.v \in Objs THEN [c.h EXCEPT ![b.v]["c"] = "233"]
                      ELSE c.h,
                err |-> FALSE]

\* The host program makes the scope, perhaps with a parent scope and a
\* locals object, and stores objects and primitives in them.
Build ==
    \E o \in CurOps :
      /\ o.op = "build"
      /\ local.done = "no"
      /\ local.objs = NoLocals.objs
      /\ \E loc, inh \in BOOLEAN :
         \E la \in {"absent", "o1"}, sa \in {"absent", "o2", "0"},
            pa \in {"absent", "o3"}, b1, b3 \in {"absent", "o4"},
            b2 \in {"absent", "o4", "0"}, c4 \in {"absent", "old"} :
           /\ ~loc => la = "absent" /\ b1 = "absent"
           /\ ~inh => pa = "absent" /\ b3 = "absent"
           /\ local' = [local EXCEPT
                          !.locals = loc,
                          !.inherits = inh,
                          !.objs = [@ EXCEPT !["l"]["a"] = la,
                                             !["s"]["a"] = sa,
                                             !["p"]["a"] = pa,
                                             !["o1"]["b"] = b1,
                                             !["o2"]["b"] = b2,
                                             !["o3"]["b"] = b3,
                                             !["o4"]["c"] = c4]]
      /\ stack' = Resume
      /\ fuel' = Spend
      /\ threw' = Since
      /\ ev' = Ev("build", 0, 0, FALSE)
      /\ UNCHANGED << tree, phase, watchers, wrec, lastDirtyWatch, asyncQueue,
                      applyAsyncQueue, applyAsyncId, postDigestQueue, timers,
                      data, exc, env >>

\* parse('a.b.c = 233')(s, l), or (s) when there are no locals.
Assign ==
    \E o \in CurOps :
      /\ o.op = "assign"
      /\ LET r == assignment(local.objs, local.locals, local.inherits) IN
           /\ local' = [local EXCEPT !.objs = r.h,
                                     !.was = local.objs,
                                     !.done = IF r.err THEN "TypeError"
                                              ELSE "yes"]
           /\ exc' = IF r.err THEN "TypeError" ELSE "none"
           /\ threw' = IF r.err THEN TRUE ELSE Since
           /\ ev' = Ev("assign", 0, 0, r.err)
      /\ stack' = Resume
      /\ fuel' = Spend
      /\ UNCHANGED << tree, phase, watchers, wrec, lastDirtyWatch, asyncQueue,
                      applyAsyncQueue, applyAsyncId, postDigestQueue, timers,
                      data, env >>

\* ---------------------------------------------------------------- sandbox

\* The values an expression can meet: the host global and an object made by
\* Object.create(window), the Function and Object constructors,
\* Function.prototype.call/apply/bind, a DOM node, a function of the program,
\* a plain object, and primitives.
Values ==
    {"window", "shadow", "Function", "Object", "call", "apply", "bind",
     "node", "fn", "obj", "1", "0", "undefined"}

\* What the tests of ensureSafeObject find in a value: "window" has document,
\* location, alert and setTimeout (inherited ones too); "constructor" is its
\* own constructor; "factory" has getOwnPropertyNames or
\* getOwnPropertyDescriptor; "node" is a DOM node; "falsy" fails `if (obj)`.
Trait(obj) ==
    CASE obj \in {"window", "shadow"} -> "window"
      [] obj = "Function" -> "constructor"
      [] obj = "Object" -> "factory"
      [] obj = "node" -> "node"
      [] obj \in {"0", "undefined"} -> "falsy"
      [] OTHER -> "plain"

\* ensureSafeObject(obj): throws for a window, Function, Object and a DOM
\* node, and returns obj otherwise.
ensureSafeObject(obj) ==
    IF Trait(obj) \in {"window", "constructor", "factory", "node"}
      THEN "Error" ELSE obj

\* ensureSafeFunction(obj): throws for Function and for call, apply and bind.
ensureSafeFunction(obj) ==
    IF Trait(obj) = "constructor" \/ obj \in {"call", "apply", "bind"}
      THEN "Error" ELSE obj

\* ensureSafeMemberName(name): throws for the names of the blacklist.
ensureSafeMemberName(name) ==
    IF name \in {"constructor", "__proto__", "__defineGetter__",
                 "__defineSetter__", "__lookupGetter__", "__lookupSetter__"}
      THEN "Error" ELSE name

\* (left).name in JavaScript, for the values of an expression e: every
\* function has call; "obj" has the property y.
Prop(e, left, name) ==
    IF name = "call" /\ left \in {"fn", "Function", "Object", "call", "apply", "bind"}
      THEN "call"
    ELSE IF name = "y" /\ left = "obj" THEN e.y
    ELSE "undefined"

\* What the accessor the compiler generates for e.form returns on the scope
\* {x: e.x}, or the error it throws ("Error": thrown by a check of the
\* sandbox, at compilation for a name of the blacklist; "TypeError": thrown
\* by JavaScript).  recurse(Identifier) checks the value with
\* ensureSafeObject; recurse(MemberExpression) checks the name, and the value
\* when the object is truthy; recurse(CallExpression) checks the context
\* with ensureSafeObject, the callee with ensureSafeFunction and what the
\* call returns with ensureSafeObject, and for a filter checks nothing but
\* the argument; recurse(ThisExpression) is the scope.
evaluate(e) ==
    LET v0 == ensureSafeObject(e.x)
        name == IF e.form \in {"x.call", "x.call()"} THEN "call"
                ELSE IF e.form = "x.constructor" THEN "constructor"
                ELSE "y"
        v1 == IF Trait(v0) = "falsy" THEN "undefined"
              ELSE ensureSafeObject(Prop(e, v0, name))
        called(callee) ==
            IF ensureSafeFunction(callee) = "Error" THEN "Error"
            ELSE IF Trait(callee) = "falsy" THEN callee
            ELSE IF callee # "fn" THEN "TypeError"
            ELSE ensureSafeObject(e.ret)
    IN  CASE e.form = "this" -> "scope"
          [] e.form = "x" -> v0
          [] e.form \in {"x.y", "x.call", "x.constructor"} ->
               IF ensureSafeMemberName(name) = "Error" \/ v0 = "Error"
                 THEN "Error" ELSE v1
          [] e.form = "x()" ->
               IF v0 = "Error" THEN "Error" ELSE called(v0)
          [] e.form \in {"x.y()", "x.call()"} ->
               IF v0 = "Error" \/ v1 = "Error" THEN "Error"
               ELSE IF v0 = "undefined" THEN "TypeError"
               ELSE called(Prop(e, v0, name))
          [] e.form = "x | f" ->
               IF v0 = "Error" THEN "Error" ELSE e.ret

\* parse(form)(scope) for one of the expressions above, on a scope whose x,
\* and the values reachable from it, the host program chose.
Evaluate ==
    \E o \in CurOps :
      /\ o.op = "evaluate"
      /\ \E form \in {"this", "x", "x.y", "x.call", "x.constructor", "x()",
                       "x.y()", "x.call()", "x | f"} :
         \E x \in IF form = "this" THEN {"undefined"} ELSE Values :
         \E y \in IF form \in {"x.y", "x.y()"} /\ x = "obj"
                    THEN Values ELSE {"undefined"} :
         \E ret \in IF form \in {"x()", "x.y()", "x | f"}
                      THEN Values ELSE {"undefined"} :
           LET e == [form |-> form, x |-> x, y |-> y, ret |-> ret]
               r == evaluate(e)
           IN  /\ local' = [local EXCEPT !.expr = e, !.result = r]
               /\ exc' = IF r \in {"Error", "TypeError"} THEN r ELSE "none"
               /\ threw' = IF r \in {"Error", "TypeError"} THEN TRUE ELSE Since
               /\ ev' = Ev("evaluate", 0, 0, r \in {"Error", "TypeError"})
      /\ stack' = Resume
      /\ fuel' = Spend
      /\ UNCHANGED << tree, phase, watchers, wrec, lastDirtyWatch, asyncQueue,
                      applyAsyncQueue, applyAsyncId, postDigestQueue, timers,
                      data, env >>

\* ----------------------------------------------------------------- events

\* _on(eventName, listener) called by a user function or by the host.
On ==
    \E o \in CurOps :
      /\ o.op = "on"
      /\ listeners' = _on(listeners, o)
      /\ stack' = Resume
      /\ fuel' = Spend
      /\ threw' = Since
      /\ ev' = Ev("on", o.s, Len(listeners[o.s][o.v]) + 1, FALSE)
      /\ UNCHANGED << proto, parent, children, destroyed, heap, exc, env >>

\* The function _on returned for listener o.k of event o.v on scope o.s: the
\* first entry of the array that is the listener is set to null.
Off ==
    \E o \in CurOps :
      /\ o.op = "off"
      /\ LET Nulled(q) ==
                 [i \in DOMAIN q |->
                    IF q[i].id = o.k /\ \A j \in 1 .. (i - 1) : q[j].id # o.k
                      THEN [f |-> Noop, id |-> -1]
                      ELSE q[i]]
         IN  /\ listeners' = [listeners EXCEPT ![o.s][o.v] = Nulled(@)]
             /\ stack' = [i \in DOMAIN Resume |->
                            IF Resume[i].fn = "fire" /\ Resume[i].det
                                 /\ Resume[i].s = o.s /\ Resume[i].role = o.v
                              THEN [Resume[i] EXCEPT !.held = Nulled(@)]
                              ELSE Resume[i]]
      /\ fuel' = Spend
      /\ threw' = Since
      /\ ev' = Ev("off", o.s, o.k, FALSE)
      /\ UNCHANGED << proto, parent, children, destroyed, heap, exc, env >>

\* event.stopPropagation() and event.preventDefault() in a listener: the
\* event is the one of the dispatch that called it. The event _broadcast
\* makes has no stopPropagation: the call is a TypeError.
EventCall ==
    \E o \in CurOps :
      /\ o.op \in {"stopPropagation", "preventDefault"}
      /\ Top.args # << >>
      /\ LET e == Top.args[1] IN
           IF o.op = "stopPropagation" /\ stack[e].fn # "emit"
             THEN /\ stack' = Resume
                  /\ exc' = "TypeError"
                  /\ threw' = TRUE
             ELSE /\ stack' = [Resume EXCEPT
                                 ![e].cont = IF o.op = "stopPropagation"
                                               THEN FALSE ELSE @,
                                 ![e].defaultPrevented =
                                     IF o.op = "preventDefault" THEN TRUE ELSE @]
                  /\ exc' = "none"
                  /\ threw' = Since
      /\ fuel' = Spend
      /\ ev' = Ev(o.op, Top.s, Top.args[1], FALSE)
      /\ UNCHANGED << tree, heap, env >>

\* A call of _emit(name), _broadcast(name) or _destroy(): a new frame.  _emit
\* starts at the scope itself, _broadcast's __everyScope too; _destroy starts
\* with this._broadcast('_destroy').
CallEvent ==
    \E o \in CurOps :
      /\ o.op \in {"emit", "broadcast", "destroy"}
      /\ IF Len(stack) >= MaxStack
           THEN /\ stack' = Resume
                /\ exc' = "RangeError"
                /\ threw' = TRUE
           ELSE /\ stack' =
                     Append(Resume,
                            [Frame(o.op, IF o.op = "destroy" THEN "begin" ELSE "visit",
                                   o.s, Noop, o.v)
                               EXCEPT !.trav = << [s |-> o.s, ci |-> 0, n |-> 0] >>])
                /\ exc' = "none"
                /\ threw' = Since
      /\ fuel' = Spend
      /\ ev' = Ev("call", o.s, 0, FALSE)
      /\ UNCHANGED << tree, heap, env >>

\* _emit / _broadcast: scope.__fireEventOnScope(eventName, event, args) on the
\* scope being visited.
FireOnScope ==
    /\ stack # << >>
    /\ exc = "none"
    /\ Top.fn \in {"emit", "broadcast"}
    /\ Top.pc = "visit"
    /\ stack' = Append(WithTop([Top EXCEPT !.pc = "visited",
                                           !.seen = @ \cup {CurScope(Top)}]),
                       [Frame("fire", "loop", CurScope(Top), Noop, Top.role)
                          EXCEPT !.wi = 1])
    /\ ev' = Ev("fire", CurScope(Top), Top.s, Top.fn = "broadcast")
    /\ UNCHANGED << tree, heap, exc, env, fuel, threw >>

\* __fireEventOnScope: listeners[i] is a function; it is called, then i++.
FireListener ==
    /\ Running("fire", "loop")
    /\ Top.wi <= Len(Fired(Top))
    /\ Fired(Top)[Top.wi].id # -1
    /\ stack' = Append(WithTop([Top EXCEPT !.wi = @ + 1,
                                           !.seen = @ \cup {Fired(Top)[Top.wi].id}]),
                       [Frame("user", "run", Top.s, Fired(Top)[Top.wi].f, "event")
                          EXCEPT !.args = << Len(stack) - 1 >>])
    /\ ev' = Ev("listener", Top.s, Top.wi, Top.role = "_destroy")
    /\ UNCHANGED << tree, heap, exc, env, fuel, threw >>

\* __fireEventOnScope: listeners[i] == null; the entry is spliced out of the
\* array, which every loop running on that array sees, and i stays.
FireSplice ==
    /\ Running("fire", "loop")
    /\ Top.wi <= Len(Fired(Top))
    /\ Fired(Top)[Top.wi].id = -1
    /\ LET Cut(q) == SubSeq(q, 1, Top.wi - 1) \o SubSeq(q, Top.wi + 1, Len(q))
       IN  IF Top.det
             THEN /\ stack' = [i \in DOMAIN stack |->
                                IF stack[i].fn = "fire" /\ stack[i].det
                                     /\ stack[i].s = Top.s
                                     /\ stack[i].role = Top.role
                                  THEN [stack[i] EXCEPT !.held = Cut(@)]
                                  ELSE stack[i]]
                  /\ UNCHANGED listeners
             ELSE /\ listeners' = [listeners EXCEPT ![Top.s][Top.role] = Cut(@)]
                  /\ UNCHANGED stack
    /\ ev' = Ev("splice", Top.s, Top.wi, FALSE)
    /\ UNCHANGED << proto, parent, children, destroyed, heap, exc, env, fuel,
                    threw >>

\* __fireEventOnScope: i has reached listeners.length.
FireEnd ==
    /\ Running("fire", "loop")
    /\ Top.wi > Len(Fired(Top))
    /\ stack' = Pop
    /\ ev' = Ev("fireEnd", Top.s, 0, FALSE)
    /\ UNCHANGED << tree, heap, exc, env, fuel, threw >>

\* An _emit that goes up to the root whatever the listeners did.
EmitUp_Ignore ==
    /\ Running("emit", "visited")
    /\ IF parent[CurScope(Top)] # 0
         THEN stack' = WithTop([Top EXCEPT
                          !.pc = "visit",
                          !.trav = << [s |-> parent[CurScope(Top)],
                                       ci |-> 0, n |-> 0] >>])
         ELSE stack' = Pop
    /\ ev' = Ev("emitUp", CurScope(Top), parent[CurScope(Top)], FALSE)
    /\ UNCHANGED << tree, heap, exc, env, fuel, threw >>

\* _emit: scope = scope._parent; the loop goes on while there is a scope and
\* propagation has not been stopped, then the event is returned.
EmitUp ==
    /\ Running("emit", "visited")
    /\ IF parent[CurScope(Top)] # 0 /\ Top.cont
         THEN stack' = WithTop([Top EXCEPT
                          !.pc = "visit",
                          !.trav = << [s |-> parent[CurScope(Top)],
                                       ci |-> 0, n |-> 0] >>])
         ELSE stack' = Pop
    /\ ev' = Ev("emitUp", CurScope(Top), parent[CurScope(Top)], FALSE)
    /\ UNCHANGED << tree, heap, exc, env, fuel, threw >>

\* _broadcast's __everyScope: fn(this) returned true, children.every begins.
BroadcastDown ==
    /\ Running("broadcast", "visited")
    /\ stack' = WithTop([Top EXCEPT !.pc = "children",
                           !.trav[Len(Top.trav)].n =
                               Len(children[CurScope(Top)])])
    /\ ev' = Ev("scopeFired", CurScope(Top), 0, FALSE)
    /\ UNCHANGED << tree, heap, exc, env, fuel, threw >>

\* _broadcast's __everyScope: every() moves to the next child.
BroadcastEnter ==
    /\ Running("broadcast", "children")
    /\ LET e == Top.trav[Len(Top.trav)] IN
         /\ e.ci < e.n
         /\ IF e.ci + 1 <= Len(children[e.s])
              THEN LET c == children[e.s][e.ci + 1] IN
                /\ stack' = WithTop([Top EXCEPT
                       !.pc = "visit",
                       !.trav = Append([Top.trav EXCEPT ![Len(Top.trav)].ci = @ + 1],
                                       [s |-> c, ci |-> 0, n |-> 0])])
                /\ ev' = Ev("enterScope", c, 0, TRUE)
              ELSE
                /\ stack' = WithTop([Top EXCEPT !.trav[Len(Top.trav)].ci = @ + 1])
                /\ ev' = Ev("noChild", e.s, 0, TRUE)
    /\ UNCHANGED << tree, heap, exc, env, fuel, threw >>

\* _broadcast's __everyScope: every() returned true for this scope; after the
\* last one the event is returned.
BroadcastLeave ==
    /\ Running("broadcast", "children")
    /\ LET e == Top.trav[Len(Top.trav)] IN
         /\ e.ci >= e.n
         /\ stack' = IF Len(Top.trav) = 1 THEN Pop
                     ELSE WithTop([Top EXCEPT
                            !.trav = SubSeq(Top.trav, 1, Len(Top.trav) - 1)])
         /\ ev' = Ev("leaveScope", e.s, 0, TRUE)
    /\ UNCHANGED << tree, heap, exc, env, fuel, threw >>

\* --------------------------------------------------------------- _destroy

\* _destroy(): this._broadcast('_destroy').
DestroyBegin ==
    /\ Running("destroy", "begin")
    /\ stack' = Append(WithTop([Top EXCEPT !.pc = "detach"]),
                       [Frame("broadcast", "visit", Top.s, Noop, "_destroy")
                          EXCEPT !.trav = << [s |-> Top.s, ci |-> 0, n |-> 0] >>])
    /\ ev' = Ev("destroyBegin", Top.s, 0, FALSE)
    /\ UNCHANGED << tree, heap, exc, env, fuel, threw >>

\* A loop that is running over an array of scope s keeps that array when
\* _destroy gives s a new, empty one.
Keeping(f, s) ==
    IF f.det THEN f
    ELSE IF f.fn = "digest" /\ f.pc \in {"watch", "compare", "listened"}
              /\ CurScope(f) = s
      THEN [f EXCEPT !.det = TRUE, !.held = watchers[s]]
    ELSE IF f.fn = "fire" /\ f.s = s
      THEN [f EXCEPT !.det = TRUE, !.held = listeners[s][f.role]]
    ELSE f

\* A _destroy that leaves the scope its listeners.
DestroyDetach_KeepListeners ==
    /\ Running("destroy", "detach")
    /\ LET s == Top.s IN
         /\ children' = IF parent[s] # 0
                          THEN [children EXCEPT ![parent[s]] = Without(@, s)]
                          ELSE children
         /\ watchers' = [watchers EXCEPT ![s] = << >>]
         /\ destroyed' = destroyed \cup {s}
         /\ stack' = [i \in 1 .. (Len(stack) - 1) |-> Keeping(stack[i], s)]
         /\ ev' = Ev("destroyed", s, 0, FALSE)
    /\ UNCHANGED << proto, parent, listeners, phase, wrec, lastDirtyWatch,
                    asyncQueue, applyAsyncQueue, applyAsyncId, postDigestQueue,
                    timers, data, local, exc, env, fuel, threw >>

\* _destroy(): the scope is spliced out of its parent's __children, and its
\* __watchers and __listeners are replaced by empty ones.
DestroyDetach ==
    /\ Running("destroy", "detach")
    /\ LET s == Top.s IN
         /\ children' = IF parent[s] # 0
                          THEN [children EXCEPT ![parent[s]] = Without(@, s)]
                          ELSE children
         /\ watchers' = [watchers EXCEPT ![s] = << >>]
         /\ listeners' = [listeners EXCEPT ![s] = [n \in EventNames |-> << >>]]
         /\ destroyed' = destroyed \cup {s}
         /\ stack' = [i \in 1 .. (Len(stack) - 1) |-> Keeping(stack[i], s)]
         /\ ev' = Ev("destroyed", s, 0, FALSE)
    /\ UNCHANGED << proto, parent, phase, wrec, lastDirtyWatch, asyncQueue,
                    applyAsyncQueue, applyAsyncId, postDigestQueue, timers,
                    data, local, exc, env, fuel, threw >>

\* ------------------------------------------------------- specifications

\* The watchers the host program has registered before its first call: each
\* set-up is a sequence of _watch calls.
Setups ==
    { << >>,
      DoWatch(Root, 1, DoEvalAsync(Root, Copy(1, 2)), Noop)
        \o DoWatch(Root, 2, Noop, Noop),
      DoWatch(Child, 1, Toggle(1), Noop),
      DoWatch(Root, 1, DoApply(Root, Noop), Noop),
      DoWatch(Root, 1, DoApplyAsync(Root, Noop), Noop),
      DoWatch(Root, 1, DoEvalAsync(Iso, Noop) \o DoEvalAsync(Root, Noop), Noop),
      DoWatch(Iso, 2, DoThrow, DoEvalAsync(Iso, Noop)),
      DoWatch(Root, 1, DoDigest(Child), Noop),
      DoWatch(Root, 1, DoWatch(Root, 2, Noop, Noop), Noop) }

\* The calls of the host program: each a one-call closure.
Calls ==
    { c[1] : c \in
        { DoDigest(Root),
          DoDigest(Child),
          DoApply(Root, SetTo(1, "a")),
          DoEvalAsync(Root, Requeue(Root)),
          DoApplyAsync(Root, DoApply(Root, Noop)),
          DoApplyAsync(Iso, SetTo(1, "b")),
          DoPostDigest(Root, SetTo(1, "b")) } }

\* The state after root = new Scope(); child = root._new();
\* iso = above._new(true) and the _watch and _on calls of `setup`.
InitTree(setup, above) ==
    /\ phase = [s \in Scopes |-> IF s = Child THEN "unset" ELSE "null"]
    /\ proto = [s \in Scopes |-> IF s = Child THEN Root ELSE 0]
    /\ parent = [s \in Scopes |->
                   CASE s = Root -> 0 [] s = Child -> Root [] OTHER -> above]
    /\ children = [s \in Scopes |->
                     CASE s = Root /\ above = Root -> << Child, Iso >>
                       [] s = Root -> << Child >>
                       [] s = above -> << Iso >>
                       [] OTHER -> << >>]
    /\ listeners = Listening(setup)
    /\ destroyed = {}
    /\ watchers = Registered(setup).watchers
    /\ wrec = Registered(setup).wrec
    /\ lastDirtyWatch = 0
    /\ asyncQueue = << >>
    /\ applyAsyncQueue = << >>
    /\ applyAsyncId = 0
    /\ postDigestQueue = << >>
    /\ timers = << >>
    /\ data = [k \in Vars |-> "undefined"]
    /\ local = NoLocals
    /\ stack = << >>
    /\ exc = "none"
    /\ threw = FALSE
    /\ ev = Ev("init", 0, 0, FALSE)

\* The tree of the tests: both children under the root.
InitScopes(setup) ==
    InitTree(setup, Root)

Init ==
    /\ \E setup \in Setups : InitScopes(setup)
    /\ env = Calls
    /\ fuel = MaxCalls

Engine ==
    \/ DigestBegin
    \/ DigestRejected
    \/ FlushRun
    \/ FlushEnd
    \/ DrainAsync
    \/ DigestOnce
    \/ CallWatchFn
    \/ WatcherDirty
    \/ WatcherClean
    \/ ListenerReturned
    \/ WatchersDone
    \/ EnterChild
    \/ LeaveScope
    \/ NextIteration
    \/ TTLExceeded
    \/ Converged
    \/ RunPostDigest
    \/ DigestReturn
    \/ CatchError
    \/ ApplyBegin
    \/ ApplyRejected
    \/ ApplyFinally
    \/ ApplyReturn

Next ==
    \/ Engine
    \/ Mutate
    \/ Watch
    \/ EvalAsync
    \/ ApplyAsync
    \/ PostDigest
    \/ Call
    \/ Throw
    \/ Return
    \/ Uncaught
    \/ Tick

Spec ==
    Init /\ [][Next]_vars

\* JavaScript runs a call to completion: while a call is on the stack, or an
\* error is on its way out of it, the next step of the program is taken. Only
\* the host program's next call and the timers wait.
RunToCompletion ==
    ~Idle /\ Next

SpecFair ==
    Init /\ [][Next]_vars /\ WF_vars(RunToCompletion)

\* Watchers and event listeners that throw, each followed by one that does
\* not: a listener that throws, a watch function that throws, and a watcher on
\* the child; on the root and on the child a listener of "e" that throws and
\* one that writes a property.
ErrorSetup ==
    DoWatch(Root, 1, DoThrow, Noop)
      \o DoWatch(Root, 2, SetTo(3, "a"), DoThrow)
      \o DoWatch(Child, 1, SetTo(2, "c"), Noop)
      \o DoOn(Root, "e", DoThrow) \o DoOn(Root, "e", SetTo(4, "x"))
      \o DoOn(Child, "e", DoThrow) \o DoOn(Child, "e", SetTo(5, "y"))

\* The host program queues tasks that throw and tasks that do not, dispatches
\* the event and digests.
ErrorCalls ==
    { c[1] : c \in
        { DoEvalAsync(Root, DoThrow),
          DoEvalAsync(Iso, SetTo(1, "a")),
          DoApplyAsync(Root, DoThrow),
          DoApplyAsync(Root, SetTo(1, "b")),
          DoPostDigest(Root, DoThrow),
          DoPostDigest(Root, SetTo(6, "p")),
          DoEmit(Child, "e"),
          DoBroadcast(Root, "e"),
          DoDigest(Root) } }

InitErrors ==
    /\ InitScopes(ErrorSetup)
    /\ env = ErrorCalls
    /\ fuel = MaxCalls

NextErrors ==
    \/ DigestBegin
    \/ FlushRun
    \/ FlushEnd
    \/ DrainAsync
    \/ DigestOnce
    \/ CallWatchFn
    \/ WatcherDirty
    \/ WatcherClean
    \/ ListenerReturned
    \/ WatchersDone
    \/ EnterChild
    \/ LeaveScope
    \/ NextIteration
    \/ Converged
    \/ RunPostDigest
    \/ DigestReturn
    \/ CatchError
    \/ ApplyBegin
    \/ ApplyFinally
    \/ ApplyReturn
    \/ Mutate
    \/ EvalAsync
    \/ ApplyAsync
    \/ PostDigest
    \/ Call
    \/ CallEvent
    \/ FireOnScope
    \/ FireListener
    \/ FireEnd
    \/ EmitUp
    \/ BroadcastDown
    \/ BroadcastEnter
    \/ BroadcastLeave
    \/ Throw
    \/ Return
    \/ Tick

SpecErrors ==
    InitErrors /\ [][NextErrors]_vars

\* A chain of n watchers on the root scope: the watcher of property k has a
\* listener that copies it to property k + 1. The watchers are registered
\* from the head of the chain on, or from its tail on.
Chain(n, fromTail) ==
    [i \in 1 .. n |->
       LET k == IF fromTail THEN n + 1 - i ELSE i
       IN  DoWatch(Root, k, Copy(k, k + 1), Noop)[1]]

\* The host program writes the head of the chain and digests.
ChainCalls ==
    { c[1] : c \in {SetTo(1, "a"), SetTo(1, "b"), DoDigest(Root)} }

InitChain ==
    /\ \E n \in 1 .. MaxChain, fromTail \in BOOLEAN :
         InitScopes(Chain(n, fromTail))
    /\ env = ChainCalls
    /\ fuel = MaxCalls

NextChain ==
    \/ DigestBegin
    \/ DigestOnce
    \/ WatcherDirty
    \/ WatcherClean
    \/ ListenerReturned
    \/ WatchersDone
    \/ EnterChild
    \/ LeaveScope
    \/ NextIteration
    \/ TTLExceeded
    \/ Converged
    \/ DigestReturn
    \/ Mutate
    \/ Call
    \/ Return
    \/ Uncaught

SpecChain ==
    InitChain /\ [][NextChain]_vars

\* Three watchers on the root scope, of properties 1, 2 and 3, with one on the
\* child and one on the isolated child: the p-th registered runs `does` in its
\* listener, or in its watch function when inFn.
Trio(p, does, inFn) ==
    [i \in 1 .. 5 |->
       DoWatch(CASE i = 4 -> Child [] i = 5 -> Iso [] OTHER -> Root, i,
               IF i = p /\ ~inFn THEN does ELSE Noop,
               IF i = p /\ inFn THEN does ELSE Noop)[1]]

\* Watchers that register a watcher or deregister watchers while the digest
\* runs (test/scope.spec.js, 'does not end digest so that new watches are not
\* run' and the 'destroy' tests), at every place of the list.
WatchSetups ==
    {Trio(0, Noop, FALSE)}
      \cup {Trio(p, DoWatch(Root, 1, Noop, Noop), FALSE) : p \in 1 .. 4}
      \cup {Trio(p, DoUnwatch(q), inFn) :
              p \in 1 .. 3, q \in 1 .. 3, inFn \in BOOLEAN}
      \cup {Trio(1, DoUnwatch(1) \o DoUnwatch(2), TRUE),
            Trio(2, DoUnwatch(3) \o DoUnwatch(1), FALSE),
            DoWatch(Root, 3, DoWatch(Child, 1, Noop, Noop), Noop)
              \o DoWatch(Root, 2, Noop, DoUnwatch(3))
              \o DoWatch(Root, 1, Noop, Noop)}

\* The host program writes watched properties and digests.
WatchCalls ==
    { c[1] : c \in {SetTo(1, "a"), SetTo(2, "a"), SetTo(3, "NaN"),
                    SetTo(4, "a"), DoDigest(Root)} }

\* Property 1 watched by reference and by value (valueEq), property 2 by
\* reference; the host program stores objects, equal objects and NaN, and
\* writes into the object stored ('compare based on value if enabled',
\* 'handles NaN correctly').
ValueSetup ==
    DoWatch(Root, 1, Noop, Noop)
      \o << [DoWatch(Root, 1, Noop, Noop)[1] EXCEPT !.v = "valueEq"] >>
      \o DoWatch(Child, 2, Noop, Noop)

ValueCalls ==
    { c[1] : c \in {SetTo(1, "o1:x"), SetTo(1, "o2:x"), DoPoke(1),
                    SetTo(2, "NaN"), SetTo(2, "a"), DoDigest(Root)} }

InitWatch ==
    /\ \/ /\ \E setup \in WatchSetups : InitScopes(setup)
          /\ env = WatchCalls
       \/ /\ InitScopes(ValueSetup)
          /\ env = ValueCalls
    /\ fuel = MaxCalls

NextWatch ==
    \/ DigestBegin
    \/ DigestOnce
    \/ CallWatchFn
    \/ WatcherDirty
    \/ WatcherClean
    \/ ListenerReturned
    \/ WatchersDone
    \/ EnterChild
    \/ LeaveScope
    \/ NextIteration
    \/ Converged
    \/ DigestReturn
    \/ Mutate
    \/ Poke
    \/ Watch
    \/ Unwatch
    \/ Call
    \/ Return

SpecWatch ==
    InitWatch /\ [][NextWatch]_vars

\* A watcher on every scope, listeners of "e" and of "_destroy" on every
\* scope; the first listener of "e" on the child destroys the child.
DestroySetup ==
    DoWatch(Root, 1, Noop, Noop) \o DoWatch(Child, 2, Noop, Noop)
      \o DoWatch(Iso, 3, Noop, Noop)
      \o DoOn(Root, "e", SetTo(4, "R"))
      \o DoOn(Child, "e", DoDestroy(Child)) \o DoOn(Child, "e", SetTo(4, "C"))
      \o DoOn(Iso, "e", SetTo(4, "I"))
      \o DoOn(Root, "_destroy", SetTo(5, "R"))
      \o DoOn(Child, "_destroy", SetTo(6, "C"))
      \o DoOn(Iso, "_destroy", SetTo(7, "I"))

\* The host program destroys scopes, digests, dispatches events, queues a
\* task on the child and registers one more listener on it.
DestroyCalls ==
    { c[1] : c \in
        { DoDestroy(Root),
          DoDestroy(Child),
          DoDigest(Root),
          DoDigest(Child),
          DoEmit(Iso, "e"),
          DoBroadcast(Root, "e"),
          DoEmit(Child, "e"),
          DoEvalAsync(Child, SetTo(8, "t")),
          DoOn(Child, "e", SetTo(4, "late")) } }

\* Listeners of "e" that deregister listeners while "e" is dispatched: on the
\* root one that deregisters itself and one that deregisters the one before
\* it; on the child one that deregisters itself and emits "e" again, and one
\* that stops the propagation; on the isolated scope one that prevents the
\* default and one that stops the propagation.
EventSetup ==
    [i \in 1 .. 8 |->
       [DoOn(CASE i <= 3 -> Root [] i <= 6 -> Child [] OTHER -> Iso, "e",
             CASE i = 1 -> << Op("off", Root, 1, 0, "e", Noop, Noop) >>
               [] i = 3 -> << Op("off", Root, 2, 0, "e", Noop, Noop) >>
               [] i = 4 -> << Op("off", Child, 4, 0, "e", Noop, Noop) >>
                             \o DoEmit(Child, "e")
               [] i = 5 -> << Op("stopPropagation", 0, 0, 0, "", Noop, Noop) >>
               [] i = 7 -> << Op("preventDefault", 0, 0, 0, "", Noop, Noop) >>
               [] i = 8 -> << Op("stopPropagation", 0, 0, 0, "", Noop, Noop) >>
               [] OTHER -> SetTo(i, "a"))[1]
          EXCEPT !.k = i]]

\* The host program dispatches "e" and deregisters a listener of the root.
EventCalls ==
    { c[1] : c \in
        { DoEmit(Root, "e"),
          DoEmit(Child, "e"),
          DoEmit(Iso, "e"),
          DoBroadcast(Root, "e"),
          DoBroadcast(Child, "e"),
          << Op("off", Root, 2, 0, "e", Noop, Noop) >> } }

\* The isolated scope is a child of the root or of the child.
InitDestroy ==
    /\ \E above \in {Root, Child} :
         \/ InitTree(DestroySetup, above) /\ env = DestroyCalls
         \/ InitTree(EventSetup, above) /\ env = EventCalls
    /\ fuel = MaxCalls

NextDestroy ==
    \/ DigestBegin
    \/ DrainAsync
    \/ DigestOnce
    \/ WatcherDirty
    \/ WatcherClean
    \/ ListenerReturned
    \/ WatchersDone
    \/ EnterChild
    \/ LeaveScope
    \/ NextIteration
    \/ Converged
    \/ DigestReturn
    \/ Mutate
    \/ EvalAsync
    \/ On
    \/ Call
    \/ CallEvent
    \/ FireOnScope
    \/ FireListener
    \/ FireEnd
    \/ EmitUp
    \/ BroadcastDown
    \/ BroadcastEnter
    \/ BroadcastLeave
    \/ DestroyBegin
    \/ DestroyDetach
    \/ Off
    \/ FireSplice
    \/ EventCall
    \/ CatchError
    \/ Return
    \/ Tick

SpecDestroy ==
    InitDestroy /\ [][NextDestroy]_vars

\* this._new(isolated, par), the new scope being c: `if (!parent) parent =
\* this`; an isolated child is a new Scope() with an own __phase, another
\* child is Object.create(this); the child is pushed to the parent's
\* __children and gets that parent as its _parent.  t is the tree before.
_new(t, this, isolated, par, c) ==
    LET p == IF par = 0 THEN this ELSE par IN
    [phase |-> [t.phase EXCEPT ![c] = IF isolated THEN "null" ELSE "unset"],
     proto |-> [t.proto EXCEPT ![c] = IF isolated THEN 0 ELSE this],
     parent |-> [t.parent EXCEPT ![c] = p],
     children |-> [t.children EXCEPT ![p] = Append(@, c), ![c] = << >>]]

\* The state after scope = new Scope(); anotherScope = new Scope();
\* child = this._new(isolated, par), with this and par one of the two (or no
\* par given), and a listener of "e" registered on each of the three: the
\* third scope is here a second root, as in the test 'can take some other
\* scope as the parent'.  The host program then dispatches events and
\* destroys scopes.
InitNew ==
    /\ \E this \in {Root, Iso}, par \in {0, Root, Iso}, isolated \in BOOLEAN :
         LET t == _new([phase |-> [s \in Scopes |-> "null"],
                        proto |-> [s \in Scopes |-> 0],
                        parent |-> [s \in Scopes |-> 0],
                        children |-> [s \in Scopes |-> << >>]],
                       this, isolated, par, Child)
         IN  /\ phase = t.phase
             /\ proto = t.proto
             /\ parent = t.parent
             /\ children = t.children
    /\ listeners = Listening(DoOn(Root, "e", SetTo(4, "R"))
                               \o DoOn(Child, "e", SetTo(5, "C"))
                               \o DoOn(Iso, "e", SetTo(6, "I")))
    /\ destroyed = {}
    /\ watchers = Registered(<< >>).watchers
    /\ wrec = Registered(<< >>).wrec
    /\ lastDirtyWatch = 0
    /\ asyncQueue = << >>
    /\ applyAsyncQueue = << >>
    /\ applyAsyncId = 0
    /\ postDigestQueue = << >>
    /\ timers = << >>
    /\ data = [k \in Vars |-> "undefined"]
    /\ local = NoLocals
    /\ stack = << >>
    /\ exc = "none"
    /\ threw = FALSE
    /\ ev = Ev("init", 0, 0, FALSE)
    /\ env = { c[1] : c \in { DoEmit(Child, "e"), DoBroadcast(Root, "e"),
                              DoBroadcast(Iso, "e"), DoDestroy(Child),
                              DoDestroy(Iso),
                              DoOn(Child, "e", SetTo(7, "late")) } }
    /\ fuel = MaxCalls

NextNew ==
    \/ Mutate
    \/ On
    \/ CallEvent
    \/ FireOnScope
    \/ FireListener
    \/ FireEnd
    \/ EmitUp
    \/ BroadcastDown
    \/ BroadcastEnter
    \/ BroadcastLeave
    \/ DestroyBegin
    \/ DestroyDetach
    \/ Return

SpecNew ==
    InitNew /\ [][NextNew]_vars

\* A group of two accessors registered first (watchers 1 and 2), alone or
\* with a third watcher whose listener writes the first accessor's property
\* or calls the group's deregister function; the group listener writes a
\* property or throws.  The host program digests, writes the properties,
\* deregisters the group, registers a group without accessors and
\* deregisters that one.
InitGroup ==
    /\ \E f \in {SetTo(4, "g"), DoThrow} :
       \E third \in {Noop, SetTo(1, "b"),
                     << Op("groupOff", Root, 2, 1, "", Noop, Noop) >>} :
         InitScopes(_watchGroup(Root, << 1, 2 >>, f)
                      \o (IF third = Noop THEN << >>
                          ELSE DoWatch(Root, 3, third, Noop)))
    /\ env = { DoDigest(Root)[1], SetTo(1, "a")[1], SetTo(2, "a")[1],
               Op("groupOff", Root, 2, 1, "", Noop, Noop),
               _watchGroup(Root, << >>, SetTo(5, "z"))[1],
               Op("groupOff", Root, 0, 0, "", Noop, Noop) }
    /\ fuel = MaxCalls

NextGroup ==
    \/ DigestBegin
    \/ DrainAsync
    \/ DigestOnce
    \/ WatcherDirty
    \/ WatcherClean
    \/ ListenerReturned
    \/ WatchersDone
    \/ EnterChild
    \/ LeaveScope
    \/ NextIteration
    \/ Converged
    \/ DigestReturn
    \/ Mutate
    \/ EvalAsync
    \/ Call
    \/ Throw
    \/ GroupItem
    \/ GroupCall
    \/ GroupDone
    \/ GroupOff
    \/ CatchError
    \/ Return
    \/ Tick

SpecGroup ==
    InitGroup /\ [][NextGroup]_vars

\* root._watchCollection(scope => scope.coll, listener); the host program
\* assigns scope.coll and digests.
InitCollection ==
    /\ InitScopes(DoWatch(Root, 1, SetTo(2, "called"),
                          << Op("collect", Root, 0, 1, "", Noop, Noop) >>))
    /\ env = { DoDigest(Root)[1] }
               \cup { Op("setColl", Root, 0, 0, "", << v >>, Noop) :
                       v \in Collections }
    /\ fuel = MaxCalls

NextCollection ==
    \/ DigestBegin
    \/ DigestOnce
    \/ CallWatchFn
    \/ Collect
    \/ WatcherDirty
    \/ WatcherClean
    \/ ListenerReturned
    \/ WatchersDone
    \/ EnterChild
    \/ LeaveScope
    \/ NextIteration
    \/ Converged
    \/ DigestReturn
    \/ Mutate
    \/ SetColl
    \/ Call
    \/ Return

SpecCollection ==
    InitCollection /\ [][NextCollection]_vars

\* One-time watches on the root: `::someValue` alone, with a listener that
\* throws, or followed by a second one whose listener deletes someValue (the
\* test 'does not remove one-time-watches until value stays defined'), and
\* the literal `::[0, 1, someValue]` watched by value (property 2 holds the
\* literal).  The host program digests, assigns and deletes someValue, and
\* deregisters the second watch.
InitOneTime ==
    /\ \E setup \in
           { oneTimeWatchDelegate(Root, 1, SetTo(3, "seen"), "", "", 1),
             oneTimeWatchDelegate(Root, 1, DoThrow, "", "", 1),
             oneTimeWatchDelegate(Root, 1, Noop, "", "", 1)
               \o oneTimeWatchDelegate(Root, 1, SetTo(1, "undefined"), "", "", 2),
             oneTimeWatchDelegate(Root, 2, Noop, "valueEq", "literal", 1) } :
         /\ watchers = Registered(setup).watchers
         /\ wrec = Registered(setup).wrec
    /\ phase = [s \in Scopes |-> IF s = Child THEN "unset" ELSE "null"]
    /\ proto = [s \in Scopes |-> IF s = Child THEN Root ELSE 0]
    /\ parent = [s \in Scopes |-> IF s = Root THEN 0 ELSE Root]
    /\ children = [s \in Scopes |-> IF s = Root THEN << Child, Iso >> ELSE << >>]
    /\ listeners = Listening(<< >>)
    /\ destroyed = {}
    /\ lastDirtyWatch = 0
    /\ asyncQueue = << >>
    /\ applyAsyncQueue = << >>
    /\ applyAsyncId = 0
    /\ postDigestQueue = << >>
    /\ timers = << >>
    /\ data = [k \in Vars |-> IF k = 2 THEN "[u]" ELSE "undefined"]
    /\ local = NoLocals
    /\ stack = << >>
    /\ exc = "none"
    /\ threw = FALSE
    /\ ev = Ev("init", 0, 0, FALSE)
    /\ env = { DoDigest(Root)[1], SetTo(1, "a")[1], SetTo(1, "undefined")[1],
               SetTo(2, "[a]")[1], SetTo(2, "[u]")[1], DoUnwatch(2)[1] }
    /\ fuel = MaxCalls

NextOneTime ==
    \/ DigestBegin
    \/ DigestOnce
    \/ WatcherDirty
    \/ WatcherClean
    \/ ListenerReturned
    \/ WatchersDone
    \/ EnterChild
    \/ LeaveScope
    \/ NextIteration
    \/ Converged
    \/ RunPostDigest
    \/ DigestReturn
    \/ Mutate
    \/ PostDigest
    \/ KeepLast
    \/ TestLast
    \/ Unwatch
    \/ Call
    \/ Throw
    \/ CatchError
    \/ Return

SpecOneTime ==
    InitOneTime /\ [][NextOneTime]_vars

\* The host program registers filters under two names, clears the registry,
\* compiles `x | up` and invokes the function it got last.
InitFilter ==
    /\ InitScopes(<< >>)
    /\ env = { Op("register", 0, k, 0, n, Noop, Noop) :
                 k \in 0 .. 2, n \in {"up", "down"} }
               \cup { Op("clear", 0, 0, 0, "", Noop, Noop),
                      Op("compile", 0, 0, 0, "up", Noop, Noop),
                      Op("invoke", 0, 0, 0, "", Noop, Noop) }
    /\ fuel = MaxCalls + 1

NextFilter ==
    \/ Register
    \/ Clear
    \/ Compile
    \/ Invoke
    \/ Uncaught

SpecFilter ==
    InitFilter /\ [][NextFilter]_vars

\* The root watches property 1; in the second set-up its watch function
\* queues a task each time it is evaluated.  The host program digests the
\* root and the child, queues tasks with _evalAsync and _applyAsync, and
\* registers a post-digest function that queues a task.
InitAsync ==
    /\ \E g \in {Noop, DoEvalAsync(Root, Noop)} :
         InitScopes(DoWatch(Root, 1, Noop, g))
    /\ env = { c[1] : c \in
                 { DoDigest(Root),
                   DoDigest(Child),
                   DoEvalAsync(Child, SetTo(2, "u")),
                   DoApplyAsync(Child, SetTo(1, "b")),
                   DoPostDigest(Root, DoEvalAsync(Root, SetTo(2, "t"))) } }
    /\ fuel = MaxCalls

NextAsync ==
    \/ DigestBegin
    \/ FlushRun
    \/ FlushEnd
    \/ DrainAsync
    \/ DigestOnce
    \/ CallWatchFn
    \/ WatcherDirty
    \/ WatcherClean
    \/ ListenerReturned
    \/ WatchersDone
    \/ EnterChild
    \/ LeaveScope
    \/ NextIteration
    \/ TTLExceeded
    \/ Converged
    \/ RunPostDigest
    \/ DigestReturn
    \/ ApplyBegin
    \/ ApplyFinally
    \/ ApplyReturn
    \/ Mutate
    \/ EvalAsync
    \/ ApplyAsync
    \/ PostDigest
    \/ Call
    \/ Return
    \/ Uncaught
    \/ Tick

SpecAsync ==
    InitAsync /\ [][NextAsync]_vars

\* The host program builds its objects and evaluates `a.b.c = 233` on them,
\* perhaps more than once.
InitAssign ==
    /\ InitScopes(<< >>)
    /\ env = { Op("build", 0, 0, 0, "", Noop, Noop),
               Op("assign", 0, 0, 0, "", Noop, Noop) }
    /\ fuel = MaxCalls

NextAssign ==
    \/ Build
    \/ Assign
    \/ Uncaught

SpecAssign ==
    InitAssign /\ [][NextAssign]_vars

\* The host program evaluates two expressions on scopes of its choice.
InitSandbox ==
    /\ InitScopes(<< >>)
    /\ env = { Op("evaluate", 0, 0, 0, "", Noop, Noop) }
    /\ fuel = 2

NextSandbox ==
    \/ Evaluate
    \/ Uncaught

SpecSandbox ==
    InitSandbox /\ [][NextSandbox]_vars

\* ----------------------------------------------------------------- claims

\* No watch function of the tree does more than read.
PureAccessors ==
    \A w \in 1 .. Len(wrec) : wrec[w].g = Noop

\* C1 (as claimed): when the dirty-checking loop of a digest ends, and so when
\* _digest() returns normally, every watcher of the digested scopes is clean,
\* provided watch functions only read and no callback threw.
C1_CleanSweepOnReturn ==
    (ev.t = "converged" /\ PureAccessors /\ ~threw)
      => \A w \in WatchersOf(Subtree(ev.s)) : Clean(w)

\* The digests and applies that hold a phase, from the outermost call inwards.
InProgressCalls ==
    {i \in DOMAIN stack : InProgress(stack[i])}

\* C2 (as claimed): the phase is a lock; no digest or apply is in progress
\* inside another one of the same scope tree, so no dirty-checking pass ever
\* runs nested in a digest or an apply.
C2_PhaseIsLock ==
    Cardinality(InProgressCalls) <= 1

C4_DigestTerminates ==
    (stack # << >>) ~> (stack = << >>)

\* C5: when a digest raises MaxDigestIterations, the phase of its scope has
\* been cleared, so that the scope accepts the next digest or apply, and that
\* digest has run none of the queued post-digest functions.
C5_TTLClearsPhaseSkipsPostDigest ==
    ev.t = "ttl" => ~Truthy(Phase(ev.s)) /\ ev.n = 0

\* MaxDigestIterations is on its way out of a digest that leaves post-digest
\* functions queued.
C5_TTLWithPostDigestQueued ==
    /\ ev.t = "ttl"
    /\ exc = "MaxDigest"
    /\ postDigestQueue # << >>

\* C6: a dirty-checking pass starts only when no evalAsync task is queued; the
\* task a digest runs is the oldest one queued, evaluated on the scope it was
\* queued on; and _evalAsync itself only queues the task: it calls nothing.
C6_AsyncTasksBeforeNextPass ==
    [][ /\ ev'.t = "passStart" => asyncQueue' = << >>
        /\ ev'.t = "asyncRun"
             => /\ ev'.n = 1
                /\ ev'.s = Head(asyncQueue).scope
                /\ stack'[Len(stack')].s = Head(asyncQueue).scope
                /\ stack'[Len(stack')].code = Head(asyncQueue).expression
        /\ ev'.t = "evalAsync"
             => /\ Len(stack') = Len(stack)
                /\ Len(asyncQueue') = Len(asyncQueue) + 1
                /\ SubSeq(asyncQueue', 1, Len(asyncQueue)) = asyncQueue ]_vars

\* A digest of the root that has made a pass runs the older of two queued
\* tasks, one that was queued on the isolated scope during that pass.
C6_OlderTaskOfPassRuns ==
    /\ ev.t = "asyncRun"
    /\ ev.s = Iso
    /\ asyncQueue # << >>
    /\ Len(stack) >= 2
    /\ stack[Len(stack) - 1].fn = "digest"
    /\ stack[Len(stack) - 1].s = Root
    /\ stack[Len(stack) - 1].passes >= 1

\* The applyAsync timers that are pending.
ApplyAsyncTimers ==
    {i \in DOMAIN timers : timers[i].kind = "applyAsync"}

\* C7 (as claimed): a digest that starts cancels the pending applyAsync timer
\* and flushes the queue: once a digest has begun, no applyAsync timer is left
\* to fire, and no tick fires with nothing queued.
C7_DigestCancelsApplyAsync ==
    /\ ev.t = "digestBegin" => ApplyAsyncTimers = {}
    /\ (ev.t = "tick" /\ ev.b) => applyAsyncQueue # << >>

\* C8 (as claimed): at most one applyAsync timer is pending per scope tree.
C8_OneApplyAsyncTimer ==
    Cardinality(ApplyAsyncTimers) <= 1

\* C9 (as claimed): _evalAsync schedules a digest on the next tick exactly
\* when no digest or apply is in progress and the queue was empty before the
\* call; made while a phase is active, it schedules nothing.
C9_EvalAsyncSchedulesWhenIdle ==
    ev.t = "evalAsync"
      => (ev.b <=> (~EngineBusy /\ Len(asyncQueue) = 1))

\* C10: a post-digest function runs when it is the oldest one queued and the
\* dirty-checking loop of the digest has ended; it leaves the queue as it is
\* run, so it runs once; a digest that has run one makes no further pass, so
\* what the function wrote is not compared by that digest; and a digest
\* returns only when no post-digest function is queued.
C10_PostDigestAfterConvergence ==
    [][ /\ ev'.t = "postRun"
             => /\ ev'.n = 1
                /\ Running("digest", "post")
                /\ Top.passes >= 1
                /\ ~Top.dirty
                /\ stack'[Len(stack')].code = Head(postDigestQueue).fn
                /\ Len(postDigestQueue') = Len(postDigestQueue) - 1
        /\ \A i \in DOMAIN stack :
             (stack[i].fn = "digest" /\ stack[i].posts > 0)
               => /\ i <= Len(stack')
                     => /\ stack'[i].fn = "digest"
                        /\ stack'[i].passes = stack[i].passes
                        /\ stack'[i].pc = "post"
        /\ ev'.t = "digestReturn" => postDigestQueue' = << >> ]_vars

\* A digest has returned after running two post-digest functions, and a
\* watcher is dirty with what they wrote.
C10_PostDigestWriteLeftDirty ==
    /\ ev.t = "digestReturn"
    /\ ev.n >= 2
    /\ \E w \in WatchersOf(Subtree(ev.s)) : ~Clean(w)

\* C11 (as claimed): _apply called while idle, on any of the scopes, evaluates
\* expr with the phase '_apply', which the scope keeps for as long as expr is
\* being evaluated; when expr has returned or thrown, the phase is cleared
\* and a digest is started on the root, which is accepted; after that digest
\* _apply only returns or throws; and then every scope's phase is idle.
C11_ApplyDigestsFromRoot ==
    [][ /\ (ev'.t = "applyBegin" /\ Len(stack) = 1)
             => /\ Phase(ev.s)' = "_apply"
                /\ stack'[2].code = stack[1].code
                /\ stack'[2].s = stack[1].s
        /\ (stack # << >> /\ stack[1].fn = "apply" /\ stack[1].pc = "evaluated")
             => Phase(stack[1].s) = "_apply"
        /\ (Len(stack) = 1 /\ stack[1].fn = "apply")
             => ev'.t \in {"applyBegin", "applyFinally", "applyReturn"}
        /\ (ev'.t = "applyFinally" /\ Len(stack) = 1)
             => /\ (\A s \in Scopes : ~Truthy(Phase(s)))'
                /\ stack'[2].fn = "digest"
                /\ stack'[2].pc = "begin"
                /\ stack'[2].s = Root
        /\ (Len(stack) = 2 /\ stack[1].fn = "apply" /\ stack[2].pc = "begin")
             => ev'.t = "digestBegin"
        /\ (ev'.t = "applyReturn" /\ stack' = << >>)
             => (\A s \in Scopes : ~Truthy(Phase(s)))' ]_vars

\* C12: an exception that reaches the engine from a watch function, a watch
\* listener, a queued task, a post-digest function or an event listener is
\* caught by the loop that called it, which goes on with its next element and
\* loses no watcher, task or listener; the exception is never in flight
\* anywhere but at that loop.
C12_UserErrorsAreCaught ==
    [][ /\ (exc # "none" /\ stack # << >>)
             => /\ exc' = "none"
                /\ Len(stack') = Len(stack)
                /\ stack'[Len(stack')] =
                     IF Top.fn = "digest" /\ Top.pc \in {"compare", "listened"}
                       THEN [Top EXCEPT !.pc = "watch", !.wi = Top.wi - 1]
                       ELSE Top
                /\ UNCHANGED << watchers, listeners, asyncQueue,
                                applyAsyncQueue, postDigestQueue >>
        /\ (exc' # "none")
             => /\ stack' # << >>
                /\ stack'[Len(stack')].fn \in {"digest", "flush", "fire"} ]_vars

\* An emit on the child: the child's listener that throws was followed by its
\* second listener, and now the root's listener that throws has been caught;
\* in a digest before, the child's watcher was reached past the root's
\* watchers that throw.
C12_ThrowingListenersPassed ==
    /\ ev.t = "caught"
    /\ Top.fn = "fire"
    /\ Top.s = Root
    /\ Top.wi = 2
    /\ data[5] = "y"
    /\ data[2] = "c"

C14_AddedNotVisitedInSamePass ==
    [][ev'.t \in {"watchFn", "dirty", "clean", "shortCircuit"}
          => ~( /\ wrec[ev'.n].born.pass # 0
                /\ wrec[ev'.n].born.call = MaxCalls - fuel
                /\ wrec[ev'.n].born.pass = Top.passes )]_vars

\* C15: a deregister function removes its watcher and no other; the listener
\* of a watcher is not called once the watcher is deregistered; and a root
\* digest during which watchers were deregistered returns without an error
\* after it has evaluated every watcher that is still registered.
C15_DeregisterRemovesOnlyThatWatcher ==
    [][ /\ ev'.t = "unwatch"
          => watchers' = [s \in Scopes |-> Without(watchers[s], ev'.n)]
        /\ ev'.t = "dirty"
          => \E s \in Scopes : \E i \in DOMAIN watchers[s] :
               watchers[s][i] = ev'.n
        /\ (ev'.t = "digestReturn" /\ stack' = << >> /\ Top.s = Root)
          => /\ ~threw'
             /\ \A s \in Scopes : \A i \in DOMAIN watchers[s] :
                  watchers[s][i] \in Top.seen ]_vars

\* C16: the watchers only read and have empty listeners; a root digest that
\* found exactly one watcher dirty, the k-th of the n in evaluation order, has
\* made two passes and evaluated watch functions n + k times when it ends.
C16_ShortCircuitCount ==
    ( /\ stack # << >>
      /\ stack[1].fn = "digest" /\ stack[1].pc = "post" /\ stack[1].s = Root
      /\ stack[1].hits = 1
      /\ \A w \in DOMAIN wrec : wrec[w].g = Noop /\ wrec[w].listenerFn = Noop )
      => /\ stack[1].passes = 2
         /\ \E k \in 1 .. Len(EvalOrder(Root)) :
              /\ EvalOrder(Root)[k] = lastDirtyWatch
              /\ stack[1].evals = Len(EvalOrder(Root)) + k

\* A root digest over five watchers has ended in which only the third one in
\* evaluation order was dirty.
C16_OnlyThirdWasDirty ==
    /\ stack # << >>
    /\ stack[1].fn = "digest" /\ stack[1].pc = "post" /\ stack[1].s = Root
    /\ stack[1].hits = 1
    /\ \A w \in DOMAIN wrec : wrec[w].g = Noop /\ wrec[w].listenerFn = Noop
    /\ Len(EvalOrder(Root)) = 5
    /\ EvalOrder(Root)[3] = lastDirtyWatch
    /\ stack[1].evals = 8

\* C17: when a sweep evaluates a watcher, the listener is called exactly when
\* the value differs from `last`: not the same value (NaN being the same as
\* NaN) or, with valueEq, not the same content. It is called with the new
\* value, the old one and the scope; on the first evaluation the old value
\* passed is the new value, never the initial value of `last`.
C17_ListenerCalledWhenChanged ==
    [][ev'.t \in {"dirty", "clean", "shortCircuit"}
          => LET w == ev'.n
                 new == data[wrec[w].k]
                 old == wrec[w].last
                 differs == IF wrec[w].valueEq
                              THEN Content(new) # Content(old)
                              ELSE new # old
                 called == /\ Len(stack') = Len(stack) + 1
                           /\ stack'[Len(stack')].role = "listener"
             IN  /\ called <=> differs
                 /\ called =>
                      /\ stack'[Len(stack')].w = w
                      /\ stack'[Len(stack')].args =
                           << new, IF old = initWatchVal THEN new ELSE old,
                              CurScope(Top) >>
                      /\ stack'[Len(stack')].args[2] # initWatchVal ]_vars

\* Both watchers of property 1 have been evaluated in a pass when the object
\* stored was written into: the listener of the watcher by value is running,
\* called with the changed object and the clone of what it held before.
C17_DeepChangeSeen ==
    /\ stack # << >>
    /\ Top.role = "listener"
    /\ wrec[Top.w].valueEq
    /\ Top.args[1] = "o1:y"
    /\ Top.args[2] = "c:x"
    /\ \E w \in DOMAIN wrec :
         ~wrec[w].valueEq /\ wrec[w].last = "o1:y" /\ w \in stack[1].seen

\* C18: the broadcast that _destroy makes has fired "_destroy" on the scope
\* and on every descendant when it ends; after _destroy the scope is not among
\* its parent's children; and no digest evaluates a watcher of a scope that
\* was destroyed or that has a destroyed ancestor.
C18_DestroyedSubtreeNotDigested ==
    [][ /\ ( /\ ev'.t = "leaveScope" /\ Len(stack') < Len(stack)
             /\ Top.fn = "broadcast" /\ Top.role = "_destroy" )
          => Top.seen = Subtree(Top.s)
        /\ ev'.t = "destroyed"
          => \A p \in Scopes : \A i \in DOMAIN children'[p] :
               children'[p][i] # ev'.s
        /\ ev'.t \in {"dirty", "clean", "shortCircuit"}
          => LET Up(t) == IF t = 0 THEN {} ELSE {t, parent[t]}
                 own == CurScope(Top)
             IN  (Up(own) \cup Up(parent[own])) \cap destroyed = {} ]_vars

\* C19: an emit or broadcast that reaches a scope after its _destroy invokes
\* none of the listeners registered on the scope before the _destroy: a
\* dispatch loop begun on a destroyed scope calls only listeners registered
\* since.
C19_NoListenerAfterDestroy ==
    [][(ev'.t = "listener" /\ ev'.s \in destroyed /\ ~Top.det)
          => /\ Top.role = "e"
             /\ Fired(Top)[Top.wi].f = SetTo(4, "late") ]_vars

\* "e" has been dispatched on the child after the child's _destroy and its
\* two listeners of "e" were not called: the loop found none.
C19_DispatchOnDestroyedChild ==
    /\ stack # << >>
    /\ Top.fn = "fire" /\ Top.s = Child /\ Top.role = "e"
    /\ Child \in destroyed
    /\ ~Top.det
    /\ Fired(Top) = << >>
    /\ data[6] = "C"

\* C20: a task queued by _evalAsync on a scope that is destroyed while the
\* task is waiting is not evaluated when the queue is drained: the drain
\* takes it from the queue and calls nothing.
C20_TaskOfDestroyedScopeSkipped ==
    [][ev'.t = "asyncRun"
          => LET t == shift(asyncQueue).item
             IN  (t.scope \in destroyed /\ ~t.late) => stack' = stack ]_vars

\* C21: a dispatch loop ends only after it has called every listener that is
\* registered on the scope for the event, whatever was deregistered while it
\* ran; and once a listener's deregister function has been called no array
\* holds the listener, so that no later dispatch can call it.
C21_DeregisterDuringDispatch ==
    [][ /\ ev'.t = "fireEnd"
          => \A i \in DOMAIN Fired(Top) :
               Fired(Top)[i].id # -1 => Fired(Top)[i].id \in Top.seen
        /\ ev'.t = "off"
          => /\ \A s \in Scopes : \A n \in EventNames :
                  \A i \in DOMAIN listeners'[s][n] :
                    listeners'[s][n][i].id # ev'.n
             /\ \A j \in DOMAIN stack' : \A i \in DOMAIN stack'[j].held :
                  stack'[j].fn = "fire" => stack'[j].held[i].id # ev'.n ]_vars

\* C22: _emit fires the event on the emitting scope first and then on the
\* parent of the scope fired last, as long as propagation is not stopped; it
\* returns only when stopped or past a scope without parent; every listener
\* is called with the event of that _emit; and the loop on the scope where
\* propagation was stopped still calls every listener of the scope.
C22_EmitGoesUpUntilStopped ==
    [][ /\ (ev'.t = "fire" /\ Top.fn = "emit")
          => /\ Top.cont
             /\ IF Top.seen = {} THEN CurScope(Top) = Top.s
                ELSE /\ CurScope(Top) \notin Top.seen
                     /\ \E c \in Top.seen : parent[c] = CurScope(Top)
        /\ (ev'.t = "emitUp" /\ Len(stack') < Len(stack))
          => ~Top.cont \/ parent[CurScope(Top)] = 0
        /\ (ev'.t = "listener" /\ stack[Len(stack) - 1].fn = "emit")
          => stack'[Len(stack')].args = << Len(stack) - 1 >>
        /\ ( /\ ev'.t = "fireEnd"
             /\ stack[Len(stack) - 1].fn = "emit"
             /\ ~stack[Len(stack) - 1].cont )
          => \A i \in DOMAIN Fired(Top) :
               Fired(Top)[i].id # -1 => Fired(Top)[i].id \in Top.seen ]_vars

\* An _emit on the child was stopped by the second listener of the child; the
\* third listener has been called since, and the root is not visited.
C22_StoppedOnChild ==
    /\ stack # << >>
    /\ Top.fn = "emit" /\ Top.pc = "visited"
    /\ ~Top.cont
    /\ CurScope(Top) = Child
    /\ Top.seen = {Child}
    /\ data[6] = "a"

\* C23: _broadcast fires the event on the broadcasting scope first and on a
\* child only after its parent; when it returns it has fired the event on
\* every scope of the subtree, isolated ones included; every listener is
\* called with the event of that _broadcast; and a listener's call of
\* stopPropagation stops nothing: there is no such function on the event.
C23_BroadcastReachesSubtree ==
    [][ /\ (ev'.t = "fire" /\ Top.fn = "broadcast")
          => IF Top.seen = {} THEN CurScope(Top) = Top.s
             ELSE parent[CurScope(Top)] \in Top.seen
        /\ ( /\ ev'.t = "leaveScope" /\ Len(stack') < Len(stack)
             /\ Top.fn = "broadcast" )
          => Subtree(Top.s) \subseteq Top.seen
        /\ (ev'.t = "listener" /\ stack[Len(stack) - 1].fn = "broadcast")
          => stack'[Len(stack')].args = << Len(stack) - 1 >>
        /\ (ev'.t = "stopPropagation" /\ stack[ev'.n].fn = "broadcast")
          => exc' = "TypeError" /\ stack'[ev'.n].cont ]_vars

\* C24: a digest evaluates only watchers of the scope it was called on and
\* of scopes below it, and when it returns it has evaluated every watcher
\* registered on that scope and on its descendants, isolated ones included.
C24_DigestCoversSubtreeOnly ==
    [][ /\ ev'.t \in {"dirty", "clean", "shortCircuit"}
          => LET own == CurScope(Top)
                 Up(t) == IF t = 0 THEN {} ELSE {t, parent[t]}
             IN  Top.s \in Up(own) \cup Up(parent[own])
        /\ ev'.t = "digestReturn"
          => \A s \in Subtree(Top.s) : \A i \in DOMAIN watchers[s] :
               watchers[s][i] \in Top.seen ]_vars

\* child._digest() has returned with the isolated scope below the child: the
\* watchers of the child and of the isolated scope have been evaluated, the
\* root's has not.
C24_ChildDigestDone ==
    /\ ev.t = "digestReturn" /\ ev.s = Child
    /\ parent[Iso] = Child /\ destroyed = {}
    /\ Len(watchers[Root]) = 1 /\ Len(watchers[Child]) = 1
    /\ Len(watchers[Iso]) = 1
    /\ wrec[watchers[Root][1]].last = initWatchVal
    /\ wrec[watchers[Child][1]].last # initWatchVal
    /\ wrec[watchers[Iso][1]].last # initWatchVal

\* C25: every scope that can be reached through __children from a scope
\* without a parent has that scope as its _root, and that scope is its own
\* _root.
C25_OneRootPerTree ==
    \A r \in Scopes : parent[r] = 0 =>
        \A s \in Subtree(r) : _root(s) = r

\* C26: the group listener is not called twice in one digest, and a digest
\* that found an accessor of the group changed has called the group listener
\* when it returns.
C26_GroupListenerOncePerDigest ==
    [][ /\ (ev'.t = "groupListener" /\ ev'.n # 0)
          => local.fired.call # Now.call
        /\ (ev'.t = "digestReturn" /\ local.noted.call = Now.call)
          => local.fired.call = Now.call ]_vars

\* C27: the group listener is not called once the function that _watchGroup
\* returned has been called, be it the listener of a group with accessors or
\* the one of a group without accessors that is still waiting for its call.
C27_NoGroupListenerAfterDeregister ==
    [][ ev'.t = "groupListener"
          => IF ev'.n = 0 THEN local.shouldCall ELSE ~local.off ]_vars

C29_OneTimeRemovedWhenDefined ==
    [][ \A w \in 1 .. Len(wrec) :
          LET Listed(ws) == \E s \in Scopes : \E i \in DOMAIN ws[s] : ws[s][i] = w
              undef == IF wrec[w].listenerFn[1].v = "literal" THEN "[u]"
                       ELSE "undefined"
          IN  /\ (Listed(watchers) /\ ~Listed(watchers') /\ stack # << >>)
                   => /\ Top.role = "post"
                      /\ local.lastValue[w] # undef
                      /\ local.lastValue[w] = wrec[w].last
              /\ (ev'.t = "digestReturn" /\ Listed(watchers))
                   => wrec[w].last \in {undef, initWatchVal} ]_vars

\* C30 (as claimed): an invocation of the function compiled from `x | up`
\* applies the filter that is registered under "up" when it is invoked.
C30_FilterResolvedAtCall ==
    [][ev'.t = "invoke" => local'.applied = local.filters["up"]]_vars

\* C30 (amended): an invocation applies the filter that was registered under
\* "up" when the expression was compiled, whatever has been registered or
\* cleared since; with none registered then, the invocation throws.
C30_FilterResolvedAtCompile ==
    [][ev'.t = "invoke"
         => /\ local'.applied = local.compiledWith["up"]
            /\ (exc' = "TypeError") = (local.compiledWith["up"] = 0) ]_vars

\* `x | up` has been invoked after the filter under "up" was replaced since
\* its compilation: the filter of the compilation was applied.
C30_InvokedAfterReregister ==
    /\ ev.t = "invoke"
    /\ local.compiledWith["up"] = 1
    /\ local.filters["up"] = 2
    /\ local.applied = 1

\* C33: a pass in which a watcher's value was found changed is a dirty pass,
\* whether the watcher's listener returns or throws: once the listener call
\* is over, by return or by the catch block, the pass's dirty flag is set.
C33_ChangedPassIsDirty ==
    [][ ( /\ stack # << >>
          /\ Top.fn = "digest"
          /\ Top.pc = "listened"
          /\ ev'.t \in {"listened", "caught"} )
        => stack'[Len(stack')].dirty ]_vars

\* C34: every queued _evalAsync task is evaluated without a further call of
\* the user: whenever the host program is between two calls, nothing runs
\* and the async queue holds a task, a timer is pending whose tick digests.
C34_QueuedTaskHasDigestScheduled ==
    (Idle /\ asyncQueue # << >>) => timers # << >>

\* C35: once an expression queued with _applyAsync has been evaluated, the
\* root's watchers are dirty-checked before the engine is idle again: when
\* nothing runs and property 1 holds "b", which only the queued expression
\* writes, the root's watcher of property 1 has seen it.
C35_RootCheckedAfterApplyAsync ==
    (Idle /\ data[1] = "b") => wrec[1].last = "b"

\* C36: a _digest() or _apply() call that is rejected because a phase is set
\* changes nothing: the phases, root.__lastDirtyWatch and the three queues
\* stay as they are and the rejected call starts no digest.
C36_RejectedCallChangesNothing ==
    [][ ev'.t = "rejected"
          => /\ UNCHANGED << phase, lastDirtyWatch, asyncQueue,
                             applyAsyncQueue, postDigestQueue >>
             /\ Len(stack') < Len(stack) ]_vars

\* C40: whenever no scope operation is executing, the _applyAsync queue holds
\* an expression exactly if root.__applyAsyncId is set, and then exactly if
\* the timer it names is pending; so no tick finds the queue flushed.
C40_QueueIffTimerPending ==
    /\ Idle => /\ (applyAsyncQueue # << >>) <=> (applyAsyncId # 0)
               /\ (applyAsyncQueue # << >>) <=> (ApplyAsyncTimers # {})
    /\ (ev.t = "tick" /\ ev.b) => applyAsyncQueue # << >>

\* C37: after a scope's _destroy, an event emitted on it or on one of its
\* descendants invokes no listener on a former ancestor of the destroyed
\* scope: when a listener is called for an _emit, no scope on the way from
\* the emitting scope up to the listener's scope has been destroyed.
C37_NoListenerAboveDestroyed ==
    [][ ( /\ ev'.t = "listener"
          /\ Len(stack) >= 2
          /\ stack[Len(stack) - 1].fn = "emit" )
        => LET from == stack[Len(stack) - 1].s
               above == parent[from]
           IN  /\ Top.s # from => from \notin destroyed
               /\ (Top.s # from /\ Top.s # above) => above \notin destroyed
      ]_vars

\* C38: in a dispatch of an event on a scope every listener that is
\* registered and not deregistered before its turn is invoked exactly once,
\* whatever the listeners do meanwhile: the loop calls no listener it has
\* called before, and it ends only when it has called every listener that is
\* still in the scope's array for the event.
C38_EachListenerExactlyOnce ==
    [][ /\ ev'.t = "listener"
          => LET l == Fired(Top)[Top.wi]
             IN  l.id > 0 => l.id \notin Top.seen
        /\ ev'.t = "fireEnd"
          => \A i \in DOMAIN Fired(Top) :
               LET l == Fired(Top)[i]
               IN  l.id > 0 => l.id \in Top.seen ]_vars

\* C39: when the listener of a watch group is called again, oldValues holds
\* for every accessor, changed or not, the value that newValues held for it
\* when the listener was called the time before.
C39_OldValuesArePreviousNewValues ==
    [][ (ev'.t = "groupListener" /\ ev'.n # 0 /\ ~ev'.b)
          => stack'[Len(stack')].args[2] = local.given ]_vars

\* C31: an assignment through the path a.b.c writes nothing on the locals,
\* makes a container only where none exists, and writes the final property:
\* a container that the path reaches before the assignment (on the locals,
\* on the scope or on the scope's parent by delegation) is the one the path
\* reaches afterwards, and `a` of the scope itself is not replaced.
C31_ContainersReused ==
    [][ (ev'.t = "assign" /\ ~ev'.b)
        => LET loc == local.locals
               inh == local.inherits
               A(h) == IF loc /\ h["l"]["a"] # "absent" THEN h["l"]["a"]
                       ELSE Get(h, inh, "s", "a")
               B(h) == Get(h, inh, A(h), "b")
           IN  /\ local'.objs["l"] = local.objs["l"]
               /\ A(local.objs) \in Objs
                    => /\ A(local'.objs) = A(local.objs)
                       /\ local'.objs["s"]["a"] = local.objs["s"]["a"]
               /\ B(local.objs) \in Objs => B(local'.objs) = B(local.objs)
               /\ Get(local'.objs, inh, B(local'.objs), "c") = "233" ]_vars

\* C32: whatever the scope holds, the accessor of an expression never
\* returns the host global, the Function or Object constructor, call, apply
\* or bind, or a DOM node: the evaluation throws instead.
C32_NothingUnsafeReturned ==
    local.result \notin {"window", "shadow", "Function", "Object", "call",
                         "apply", "bind", "node"}

====
